---- MODULE Spec2Model ----
(***************************************************************************)
(* The OpenAPI spec discovery-and-caching layer of                         *)
(* src/src/utils/dynamic-openapi.ts: the content tree seen through         *)
(* import.meta.glob, the module-level apiSpecCache, loadAllApiSpecs with   *)
(* its legacy fallback, and clearApiSpecCache.                             *)
(*                                                                         *)
(* A path is the sequence of its segments: <<"src", "content", "docs",      *)
(* "en", "apispecs", "payment-api", "v2", "a.yaml">> is the path            *)
(* /src/content/docs/en/apispecs/payment-api/v2/a.yaml. No segment is      *)
(* empty or holds a "/", so the string tests the code makes on a path      *)
(* (includes of a "/x/y/" pattern, the path regular expression, the glob   *)
(* patterns, split) are tests on the segments. Segments, languages and     *)
(* versions are strings; startsWith and the extension tests are computed   *)
(* on their characters.                                                    *)
(*                                                                         *)
(* A file's text is represented by what yaml.parse makes of it: whether    *)
(* parse throws, whether the document has a truthy info, and info.version  *)
(* (the empty string when absent, which is falsy in the code as well; a    *)
(* document may write a number for it), and the entries of its paths.      *)
(* title, description, serviceName and operations of a DynamicApiSpec are  *)
(* functions of the file alone and are not carried in the model.           *)
(*                                                                         *)
(* Further specifications share the variables: HeaderSpec for              *)
(* getApiSpecsForHeader, FaultSpec for the loader on documents that make   *)
(* it raise, VersionsSpec for getApiVersions of api-versions.ts,           *)
(* OperationsSpec for extractOperationsFromSpec and generateOperationId,   *)
(* and ExamplesSpec for the three example generators (dynamic-openapi.ts,  *)
(* openapi.ts, header.ts) on schemas and root documents given as JSON      *)
(* values, GenerationSpec for the calls generateExampleFromSchema makes,   *)
(* one at a time, EndpointsSpec for the two spec endpoints and             *)
(* loadSimpleApiSpec, VisibilitySpec for the visibility rules of the       *)
(* AuthConfigManager, LoaderCallsSpec for two callers of loadAllApiSpecs   *)
(* in the event loop, VersionCacheSpec for getApiVersions while the clock  *)
(* runs and the files change, and SharedSpec for loadAllApiSpecs and       *)
(* getApiSpecsForHeader in one process.                                    *)
(***************************************************************************)
EXTENDS Integers, Sequences, FiniteSets, TLC

VARIABLES
    files,         \* the content tree: the files in glob (Object.entries) order
    apiSpecCache,  \* dynamic-openapi.ts:31, null is present = FALSE
    now,           \* Date.now()
    lastOp,        \* history: the last operation made of the module (load, clear)
    lastCall,      \* history: the loadAllApiSpecs call the last step made, if it made one
    filledKey,     \* history: the (language, version) of the call that wrote the cache
    headerCall,    \* history: the getApiSpecsForHeader call the last step made, if it made one
    versionCache,  \* api-versions.ts:18, the Map from cacheKey to the cached list
    versionsCall,  \* history: the getApiVersions call the last step made, if it made one
    document,      \* the entries of the paths of an OpenAPI document
    extracted,     \* what extractOperationsFromSpec returned for the document
    exampleInput,  \* a schema and the root document it belongs to
    examples,      \* what the example generators returned for the schema
    endpointCall,  \* history: the last request each spec endpoint answered
    applicationProperties, \* the entries of the file application.properties
    authConfigManager,     \* header.ts:348, the fields config and visibilityRules
    visibilityCheck,       \* history: the last checkPageVisibility call and its result
    generation,    \* the calls of generateExampleFromSchema that are still to be made
    loaderCalls    \* the calls of loadAllApiSpecs in progress and the one that is running

\* the variables the loader's operations leave alone
\* the variables of the visibility rules
authVars == <<applicationProperties, authConfigManager, visibilityCheck>>

\* the variables of the calls that are followed step by step
processVars == <<generation, loaderCalls>>

otherVars ==
    <<versionCache, versionsCall, document, extracted, exampleInput, examples, endpointCall,
      authVars, processVars>>

vars == <<files, apiSpecCache, now, lastOp, lastCall, filledKey, headerCall, otherVars>>

\* no call of getApiSpecsForHeader
NoHeaderCall ==
    [made |-> FALSE, language |-> "", version |-> "", result |-> <<>>,
     legacy |-> FALSE, caught |-> FALSE]

\* no extraction made yet
NoOperations == [done |-> FALSE, raised |-> FALSE, list |-> <<>>]

\* no call of getApiVersions
NoVersionsCall ==
    [made |-> FALSE, serviceName |-> "", language |-> "", result |-> <<>>,
     hit |-> FALSE, caught |-> FALSE]

(* JSON values: what a parsed document and an example are made of *)

\* a value; the elements of an array have the name "", those of an object are
\* its members in insertion order
JsonValue(kind, string, number, boolean, elements) ==
    [kind |-> kind, string |-> string, number |-> number, boolean |-> boolean,
     elements |-> elements]

Undefined == JsonValue("undefined", "", 0, FALSE, <<>>)
Null == JsonValue("null", "", 0, FALSE, <<>>)
Str(s) == JsonValue("string", s, 0, FALSE, <<>>)
Num(n) == JsonValue("number", "", n, FALSE, <<>>)
Bool(b) == JsonValue("boolean", "", 0, b, <<>>)
Member(name, value) == [name |-> name, value |-> value]
Arr(values) ==
    JsonValue("array", "", 0, FALSE, [i \in 1..Len(values) |-> Member("", values[i])])
Obj(members) == JsonValue("object", "", 0, FALSE, members)

\* a generator returned the value, or raised
Returned(value) == [raised |-> FALSE, value |-> value]
Raised == [raised |-> TRUE, value |-> Undefined]

\* no schema given, no generator has answered yet
NoInput == [schema |-> Undefined, spec |-> Undefined]
NoExamples ==
    [done |-> {}, dynamic |-> Returned(Undefined), openapi |-> Returned(Undefined),
     header |-> Returned(Undefined)]

\* no document served
NoDocument ==
    [parse |-> "none", info |-> FALSE, infoVersion |-> "", versionIsString |-> TRUE,
     paths |-> <<>>, openapi |-> FALSE]

\* no request answered by an endpoint
NoResponse ==
    [made |-> FALSE, specId |-> "", language |-> "", version |-> "", status |-> 0,
     document |-> NoDocument, unreadable |-> {}]
NoEndpointCall == [json |-> NoResponse, yaml |-> NoResponse]

\* no rule of a visibility check, no check made
NoRule == [path |-> "", type |-> "", rule |-> ""]
NoCheck ==
    [made |-> FALSE, pagePath |-> "", userRoles |-> <<>>, rules |-> <<>>,
     visible |-> FALSE, requiresAuth |-> FALSE, requiredRole |-> "", rule |-> NoRule]

\* the AuthConfigManager after its construction
NewAuthConfigManager == [config |-> FALSE, visibilityRules |-> <<>>]

\* the visibility rules are not in use
AuthIdle ==
    /\ applicationProperties = <<>>
    /\ authConfigManager = NewAuthConfigManager
    /\ visibilityCheck = NoCheck

\* no example generation has been started
NoGeneration == [started |-> FALSE, pending |-> <<>>, calls |-> 0]

\* the callers of loadAllApiSpecs
Callers == {1, 2}

\* a caller that is not inside loadAllApiSpecs
NoLoaderCall == [pc |-> "idle", language |-> "", version |-> "", specs |-> <<>>]

\* no call of loadAllApiSpecs is in progress
NoLoaderCalls == [running |-> 0, call |-> [c \in Callers |-> NoLoaderCall]]

\* no call is followed step by step
ProcessIdle ==
    /\ generation = NoGeneration
    /\ loaderCalls = NoLoaderCalls

\* the variables that are not in use
OthersIdle ==
    /\ versionCache = <<>>
    /\ versionsCall = NoVersionsCall
    /\ document = <<>>
    /\ extracted = NoOperations
    /\ exampleInput = NoInput
    /\ examples = NoExamples
    /\ endpointCall = NoEndpointCall
    /\ AuthIdle
    /\ ProcessIdle

----------------------------------------------------------------------------
(* Program constants *)

CACHE_DURATION == 5 * 60 * 1000

\* the time-to-live in milliseconds, as a figure
TTL_MS == 300000

(* Bounds *)

\* the largest number of files in a content tree
MaxFiles == 2

----------------------------------------------------------------------------
(* Strings *)

\* String.prototype.startsWith
StartsWith(s, p) ==
    /\ Len(p) <= Len(s)
    /\ SubSeq(s, 1, Len(p)) = p

\* String.prototype.endsWith
EndsWith(s, p) ==
    /\ Len(p) <= Len(s)
    /\ SubSeq(s, Len(s) - Len(p) + 1, Len(s)) = p

\* path.includes("/" + dirs[1] + "/" + ... + dirs[n] + "/"): the segments dirs
\* occur in a row in the path and a further segment follows them
IncludesDirs(path, dirs) ==
    \E i \in 1..(Len(path) - Len(dirs)) : SubSeq(path, i, i + Len(dirs) - 1) = dirs

\* a file name the glob suffix *.{yaml,yml} matches
IsYamlName(name) ==
    EndsWith(name, ".yaml") \/ EndsWith(name, ".yml")

----------------------------------------------------------------------------
(* The content tree *)

\* what yaml.parse makes of a file's text
Contents ==
    { [parse |-> "throws", info |-> FALSE, infoVersion |-> "", versionIsString |-> TRUE,
       paths |-> <<>>],
      [parse |-> "ok", info |-> FALSE, infoVersion |-> "", versionIsString |-> TRUE,
       paths |-> <<>>],
      [parse |-> "ok", info |-> TRUE, infoVersion |-> "", versionIsString |-> TRUE,
       paths |-> <<>>],
      [parse |-> "ok", info |-> TRUE, infoVersion |-> "2.0.0", versionIsString |-> TRUE,
       paths |-> <<>>] }

\* the paths a content tree may hold, in the order the glob lists them
CandidatePaths ==
    << <<"src", "content", "docs", "ar", "apispecs", "payment-api", "v2", "a.yaml">>,
       <<"src", "content", "docs", "en", "apispecs", "legacy.yaml">>,
       <<"src", "content", "docs", "en", "apispecs", "payment-api", "v2", "a.yaml">>,
       <<"src", "content", "docs", "en", "apispecs", "payment-api", "v2", "b.yml">>,
       <<"src", "content", "docs", "en", "apispecs", "v2", "v1", "c.yaml">> >>

\* the requests made of the loader
Languages == {"en", "ar"}
Versions == {"v1", "v2"}

\* the members of P, ascending
RECURSIVE Ascending(_)
Ascending(P) ==
    IF P = {} THEN <<>>
    ELSE LET m == CHOOSE x \in P : \A y \in P : x <= y
         IN  <<m>> \o Ascending(P \ {m})

\* the tree holding the candidate paths P with the contents c
TreeOf(P, c) ==
    LET idx == Ascending(P)
    IN  [k \in 1..Len(idx) |-> [path |-> CandidatePaths[idx[k]], content |-> c[idx[k]]]]

Trees ==
    UNION { {TreeOf(P, c) : c \in [P -> Contents]} :
            P \in {Q \in SUBSET (1..Len(CandidatePaths)) : Cardinality(Q) <= MaxFiles} }

\* import.meta.glob('/src/content/docs/*/apispecs/*/*/*.{yaml,yml}')
VersionedGlobMatches(path) ==
    /\ Len(path) = 8
    /\ SubSeq(path, 1, 3) = <<"src", "content", "docs">>
    /\ path[5] = "apispecs"
    /\ IsYamlName(path[8])

VersionedGlob(fs) == SelectSeq(fs, LAMBDA f : VersionedGlobMatches(f.path))

\* import.meta.glob('/src/content/docs/*/apispecs/*.{yaml,yml}')
LegacyGlobMatches(path) ==
    /\ Len(path) = 6
    /\ SubSeq(path, 1, 3) = <<"src", "content", "docs">>
    /\ path[5] = "apispecs"
    /\ IsYamlName(path[6])

LegacyGlob(fs) == SelectSeq(fs, LAMBDA f : LegacyGlobMatches(f.path))

----------------------------------------------------------------------------
(* Characters *)

LowerCaseLetters == "abcdefghijklmnopqrstuvwxyz"
UpperCaseLetters == "ABCDEFGHIJKLMNOPQRSTUVWXYZ"
Digits == "0123456789"

\* the position of the character c in the string str, 0 when it is not in it
IndexIn(c, str) ==
    IF \E i \in 1..Len(str) : SubSeq(str, i, i) = c
    THEN CHOOSE i \in 1..Len(str) : SubSeq(str, i, i) = c
    ELSE 0

\* the character class [a-zA-Z0-9]
IsAlphanumeric(c) ==
    \/ IndexIn(c, LowerCaseLetters) > 0
    \/ IndexIn(c, UpperCaseLetters) > 0
    \/ IndexIn(c, Digits) > 0

\* String.prototype.toUpperCase
RECURSIVE ToUpperCase(_)
ToUpperCase(s) ==
    IF s = "" THEN ""
    ELSE LET c == SubSeq(s, 1, 1)
             k == IndexIn(c, LowerCaseLetters)
         IN  (IF k > 0 THEN SubSeq(UpperCaseLetters, k, k) ELSE c)
             \o ToUpperCase(SubSeq(s, 2, Len(s)))

\* the characters of the summaries in their collation order: white space, then
\* punctuation, then digits, then letters, a letter's two cases sharing a place
CollationOrder == " _-:{}/0123456789abcdefghijklmnopqrstuvwxyz"

\* the place of a character in the collation order, its case set aside
PrimaryWeight(c) ==
    LET k == IndexIn(c, UpperCaseLetters)
    IN  IndexIn(IF k > 0 THEN SubSeq(LowerCaseLetters, k, k) ELSE c, CollationOrder)

\* the comparison of the primary weights of a and b from position i on
RECURSIVE ComparePrimary(_, _, _)
ComparePrimary(a, b, i) ==
    IF i > Len(a) /\ i > Len(b) THEN 0
    ELSE IF i > Len(a) THEN -1
    ELSE IF i > Len(b) THEN 1
    ELSE LET wa == PrimaryWeight(SubSeq(a, i, i))
             wb == PrimaryWeight(SubSeq(b, i, i))
         IN  IF wa < wb THEN -1
             ELSE IF wa > wb THEN 1
             ELSE ComparePrimary(a, b, i + 1)

\* the comparison of the cases of a and b, of equal primary weights, from
\* position i on: the lower case stands first
RECURSIVE CompareCase(_, _, _)
CompareCase(a, b, i) ==
    IF i > Len(a) THEN 0
    ELSE LET ua == IndexIn(SubSeq(a, i, i), UpperCaseLetters) > 0
             ub == IndexIn(SubSeq(b, i, i), UpperCaseLetters) > 0
         IN  IF ~ua /\ ub THEN -1
             ELSE IF ua /\ ~ub THEN 1
             ELSE CompareCase(a, b, i + 1)

\* a.localeCompare(b): negative, zero or positive
LocaleCompare(a, b) ==
    LET primary == ComparePrimary(a, b, 1)
    IN  IF primary # 0 THEN primary ELSE CompareCase(a, b, 1)

----------------------------------------------------------------------------
(* extractOperationsFromSpec *)

\* the HTTP methods the extraction looks for on a path item, in its order
HttpMethods == <<"get", "post", "put", "delete", "patch", "options", "head">>

\* path.replace(/[{}]/g, '')
RECURSIVE RemoveBraces(_)
RemoveBraces(s) ==
    IF s = "" THEN ""
    ELSE LET c == SubSeq(s, 1, 1)
         IN  (IF c = "{" \/ c = "}" THEN "" ELSE c) \o RemoveBraces(SubSeq(s, 2, Len(s)))

\* .replace(/[^a-zA-Z0-9]/g, '_')
RECURSIVE ReplaceNonAlphanumeric(_)
ReplaceNonAlphanumeric(s) ==
    IF s = "" THEN ""
    ELSE LET c == SubSeq(s, 1, 1)
         IN  (IF IsAlphanumeric(c) THEN c ELSE "_")
             \o ReplaceNonAlphanumeric(SubSeq(s, 2, Len(s)))

\* .replace(/_+/g, '_')
RECURSIVE CollapseUnderscores(_)
CollapseUnderscores(s) ==
    IF Len(s) < 2 THEN s
    ELSE IF SubSeq(s, 1, 2) = "__" THEN CollapseUnderscores(SubSeq(s, 2, Len(s)))
    ELSE SubSeq(s, 1, 1) \o CollapseUnderscores(SubSeq(s, 2, Len(s)))

\* TrimUnderscore with a fault: the expression is /_$/, the underscore at the
\* start stays
TrimUnderscore_TrailingOnly(s) ==
    IF EndsWith(s, "_") THEN SubSeq(s, 1, Len(s) - 1) ELSE s

\* .replace(/^_|_$/g, ''): one underscore at the start and one at the end
TrimUnderscore(s) ==
    LET t == IF StartsWith(s, "_") THEN SubSeq(s, 2, Len(s)) ELSE s
    IN  IF EndsWith(t, "_") THEN SubSeq(t, 1, Len(t) - 1) ELSE t

\* generateOperationId(method, path)
generateOperationId(method, path) ==
    LET cleanPath == TrimUnderscore(CollapseUnderscores(
                         ReplaceNonAlphanumeric(RemoveBraces(path))))
    IN  method \o "_" \o cleanPath

\* an operation object of a document: operationId and summary are the empty
\* string when the document does not declare them (falsy in the code as well)
Op(operationId, summary, tags) ==
    [isObject |-> TRUE, operationId |-> operationId, summary |-> summary, tags |-> tags]

\* operation.tags: absent, a list, or a string (a document that writes
\* "tags: payments")
NoTags == [declared |-> FALSE, isArray |-> TRUE, list |-> <<>>]
Tags(list) == [declared |-> TRUE, isArray |-> TRUE, list |-> list]
StringTags == [declared |-> TRUE, isArray |-> FALSE, list |-> <<>>]

\* the DynamicApiOperation pushed for the operation under the method at the
\* path; discovered is history, its place in the order of the pushes
Operation(operation, method, path, discovered) ==
    [operationId |-> IF operation.operationId # "" THEN operation.operationId
                     ELSE generateOperationId(method, path),
     method |-> ToUpperCase(method),
     path |-> path,
     summary |-> IF operation.summary # "" THEN operation.summary
                 ELSE ToUpperCase(method) \o " " \o path,
     tags |-> IF operation.tags.declared THEN operation.tags.list ELSE <<>>,
     discovered |-> discovered]

\* methods.forEach over a path item, from method j on
RECURSIVE MethodsLoop(_, _, _, _)
MethodsLoop(path, pathItem, j, operations) ==
    IF j > Len(HttpMethods) THEN operations
    ELSE LET method == HttpMethods[j]
         IN  IF method \notin DOMAIN pathItem.operations
             THEN MethodsLoop(path, pathItem, j + 1, operations)
             ELSE IF ~pathItem.operations[method].isObject
             THEN MethodsLoop(path, pathItem, j + 1, operations)
             ELSE MethodsLoop(path, pathItem, j + 1,
                      Append(operations, Operation(pathItem.operations[method], method,
                                                   path, Len(operations) + 1)))

\* Object.entries(spec.paths).forEach, from entry i on
RECURSIVE PathsLoop(_, _, _)
PathsLoop(paths, i, operations) ==
    IF i > Len(paths) THEN operations
    ELSE IF ~paths[i].pathItem.isObject THEN PathsLoop(paths, i + 1, operations)
    ELSE PathsLoop(paths, i + 1, MethodsLoop(paths[i].path, paths[i].pathItem, 1, operations))

\* Array.prototype.sort with a fault: an operation is placed before those of
\* an equal summary
RECURSIVE SortBySummary_Unstable(_, _, _)
SortBySummary_Unstable(operations, i, sorted) ==
    IF i > Len(operations) THEN sorted
    ELSE LET k == Cardinality({n \in 1..Len(sorted) :
                       LocaleCompare(sorted[n].summary, operations[i].summary) < 0})
         IN  SortBySummary_Unstable(operations, i + 1,
                 SubSeq(sorted, 1, k) \o <<operations[i]>> \o SubSeq(sorted, k + 1, Len(sorted)))

\* operations.sort((a, b) => a.summary.localeCompare(b.summary)): the sort is
\* stable, operation i is placed after the sorted ones that do not compare
\* greater
RECURSIVE SortBySummary(_, _, _)
SortBySummary(operations, i, sorted) ==
    IF i > Len(operations) THEN sorted
    ELSE LET k == Cardinality({n \in 1..Len(sorted) :
                       LocaleCompare(sorted[n].summary, operations[i].summary) <= 0})
         IN  SortBySummary(operations, i + 1,
                 SubSeq(sorted, 1, k) \o <<operations[i]>> \o SubSeq(sorted, k + 1, Len(sorted)))

\* extractOperationsFromSpec(spec): paths is the list of the entries of
\* spec.paths, empty when the document has none
extractOperationsFromSpec(paths) ==
    SortBySummary(PathsLoop(paths, 1, <<>>), 1, <<>>)

\* extractOperationsFromSpec raises: generateOperationMarkdown calls
\* operation.tags.join on the tags of an operation, which a string does not have
ExtractionRaises(paths) ==
    \E i \in 1..Len(paths) :
        /\ paths[i].pathItem.isObject
        /\ \E j \in 1..Len(HttpMethods) :
            /\ HttpMethods[j] \in DOMAIN paths[i].pathItem.operations
            /\ paths[i].pathItem.operations[HttpMethods[j]].isObject
            /\ ~paths[i].pathItem.operations[HttpMethods[j]].tags.isArray

----------------------------------------------------------------------------
(* loadAllApiSpecs *)

NoCache == [present |-> FALSE, specs |-> <<>>, lastUpdated |-> 0]

\* CacheFresh with a fault: an entry whose age equals the time-to-live still counts as fresh
CacheFresh_Inclusive(cache, t) ==
    /\ cache.present
    /\ t - cache.lastUpdated <= CACHE_DURATION

\* the cache test of loadAllApiSpecs at time t
CacheFresh(cache, t) ==
    /\ cache.present
    /\ t - cache.lastUpdated < CACHE_DURATION

\* the filter of a cache hit raises: spec.version.startsWith is called on the
\* version of a spec of the language, and a number has no startsWith
FilterRaises(specs, language) ==
    \E n \in 1..Len(specs) : specs[n].language = language /\ ~specs[n].spec.versionIsString

\* what a cache hit returns
FilterCached(specs, language, version) ==
    SelectSeq(specs, LAMBDA spec :
        spec.language = language /\ StartsWith(spec.version, version))

\* the filter for the specific language and version
LanguageVersionFiles(entries, language, version) ==
    SelectSeq(entries, LAMBDA f :
        /\ IncludesDirs(f.path, <<"docs", language, "apispecs">>)
        /\ IncludesDirs(f.path, <<version>>))

\* PathMatch with a fault: the expression is not anchored at the end of the
\* path, the three segments after the first apispecs are taken
PathMatch_Unanchored(filePath) ==
    IF \E k \in 1..Len(filePath) : filePath[k] = "apispecs" /\ Len(filePath) >= k + 3
    THEN LET k == CHOOSE k \in 1..Len(filePath) :
                      /\ filePath[k] = "apispecs" /\ Len(filePath) >= k + 3
                      /\ \A j \in 1..(k - 1) : filePath[j] # "apispecs"
         IN  [matched |-> TRUE, serviceName |-> filePath[k + 1],
              versionDir |-> filePath[k + 2], fileName |-> filePath[k + 3]]
    ELSE [matched |-> FALSE, serviceName |-> "", versionDir |-> "", fileName |-> ""]

\* filePath.match(/\/apispecs\/([^\/]+)\/([^\/]+)\/([^\/]+)$/)
PathMatch(filePath) ==
    LET n == Len(filePath)
    IN  IF n >= 4 /\ filePath[n - 3] = "apispecs"
        THEN [matched |-> TRUE, serviceName |-> filePath[n - 2],
              versionDir |-> filePath[n - 1], fileName |-> filePath[n]]
        ELSE [matched |-> FALSE, serviceName |-> "", versionDir |-> "", fileName |-> ""]

\* the DynamicApiSpec built from a versioned file; sourcePath is history, the
\* path of the file it was built from
VersionedSpec(f, m, language) ==
    [id |-> m.serviceName,
     fileName |-> m.fileName,
     version |-> IF f.content.infoVersion # "" THEN f.content.infoVersion ELSE m.versionDir,
     spec |-> f.content,
     language |-> language,
     sourcePath |-> f.path]

\* ScanLoop with a fault: a file that fails to parse, or has no info, ends the loop
RECURSIVE ScanLoop_Aborting(_, _, _, _)
ScanLoop_Aborting(entries, i, language, specs) ==
    IF i > Len(entries) THEN specs
    ELSE LET f == entries[i]
             pathMatch == PathMatch(f.path)
         IN  IF ~pathMatch.matched THEN ScanLoop_Aborting(entries, i + 1, language, specs)
             ELSE IF f.content.parse = "throws" THEN specs
             ELSE IF ~f.content.info THEN specs
             ELSE IF ExtractionRaises(f.content.paths)
             THEN ScanLoop_Aborting(entries, i + 1, language, specs)
             ELSE ScanLoop_Aborting(entries, i + 1, language,
                                    Append(specs, VersionedSpec(f, pathMatch, language)))

\* the for loop over languageVersionFiles, from entry i on, specs so far
RECURSIVE ScanLoop(_, _, _, _)
ScanLoop(entries, i, language, specs) ==
    IF i > Len(entries) THEN specs
    ELSE LET f == entries[i]
             pathMatch == PathMatch(f.path)
         IN  IF ~pathMatch.matched THEN ScanLoop(entries, i + 1, language, specs)
             ELSE IF f.content.parse = "throws" THEN ScanLoop(entries, i + 1, language, specs)
             ELSE IF ~f.content.info THEN ScanLoop(entries, i + 1, language, specs)
             ELSE IF ExtractionRaises(f.content.paths)
             THEN ScanLoop(entries, i + 1, language, specs)
             ELSE ScanLoop(entries, i + 1, language,
                           Append(specs, VersionedSpec(f, pathMatch, language)))

\* the versioned scan of loadAllApiSpecs
ScanVersioned(fs, language, version) ==
    ScanLoop(LanguageVersionFiles(VersionedGlob(fs), language, version), 1, language, <<>>)

\* the DynamicApiSpec built from a flat-layout file
LegacySpec(f, language) ==
    LET fileName == f.path[Len(f.path)]
        specId == IF EndsWith(fileName, ".yaml") THEN SubSeq(fileName, 1, Len(fileName) - 5)
                  ELSE IF EndsWith(fileName, ".yml") THEN SubSeq(fileName, 1, Len(fileName) - 4)
                  ELSE fileName
    IN  [id |-> specId,
         fileName |-> fileName,
         version |-> IF f.content.infoVersion # "" THEN f.content.infoVersion ELSE "1.0.0",
         spec |-> f.content,
         language |-> language,
         sourcePath |-> f.path]

RECURSIVE LegacyLoop(_, _, _, _)
LegacyLoop(entries, i, language, specs) ==
    IF i > Len(entries) THEN specs
    ELSE LET f == entries[i]
         IN  IF f.content.parse = "throws" THEN LegacyLoop(entries, i + 1, language, specs)
             ELSE IF ~f.content.info THEN LegacyLoop(entries, i + 1, language, specs)
             ELSE IF ExtractionRaises(f.content.paths)
             THEN LegacyLoop(entries, i + 1, language, specs)
             ELSE LegacyLoop(entries, i + 1, language, Append(specs, LegacySpec(f, language)))

\* loadLegacyApiSpecs; legacyGlobThrows: its glob raises, which its catch turns into []
loadLegacyApiSpecs(fs, language, legacyGlobThrows) ==
    IF legacyGlobThrows THEN <<>>
    ELSE LegacyLoop(SelectSeq(LegacyGlob(fs), LAMBDA f :
                        IncludesDirs(f.path, <<"docs", language, "apispecs">>)),
                    1, language, <<>>)

\* the record of a call: what it was asked, what it returned, which path it took
\* (hit: served from the cache; scanned: it invoked the versioned glob; fellBack:
\* it returned loadLegacyApiSpecs; caught: an exception reached the catch of
\* loadAllApiSpecs or of loadLegacyApiSpecs; raised: an exception left the
\* call), and what it found: the operation before it and the cache entry's
\* presence and timestamp when it started
Call(language, version, result, path) ==
    [language |-> language, version |-> version, result |-> result,
     hit |-> path \in {"hit", "hit-caught"},
     scanned |-> path \in {"scan", "fallback", "fallback-caught"},
     fellBack |-> path \in {"fallback", "fallback-caught"},
     caught |-> path \in {"hit-caught", "fallback-caught"},
     raised |-> path = "raised",
     afterOp |-> lastOp,
     entryBefore |-> apiSpecCache.present, stampBefore |-> apiSpecCache.lastUpdated]

NoCall ==
    [language |-> "", version |-> "", result |-> <<>>,
     hit |-> FALSE, scanned |-> FALSE, fellBack |-> FALSE,
     caught |-> FALSE, raised |-> FALSE,
     afterOp |-> "", entryBefore |-> FALSE, stampBefore |-> 0]

NoKey == [language |-> "", version |-> ""]

\* CacheHit with a fault: no catch around the filter of the cached list
CacheHit_Uncaught(language, version) ==
    IF FilterRaises(apiSpecCache.specs, language)
    THEN Call(language, version, <<>>, "raised")
    ELSE Call(language, version,
              FilterCached(apiSpecCache.specs, language, version), "hit")

\* the call served from the cache: the filtered list, or [] from the catch of
\* loadAllApiSpecs when the filter raises
CacheHit(language, version) ==
    IF FilterRaises(apiSpecCache.specs, language)
    THEN Call(language, version, <<>>, "hit-caught")
    ELSE Call(language, version,
              FilterCached(apiSpecCache.specs, language, version), "hit")

\* the path of a call that returns loadLegacyApiSpecs, whose catch turns a
\* raising glob into []
FallbackPath(legacyGlobThrows) ==
    IF legacyGlobThrows THEN "fallback-caught" ELSE "fallback"

\* loadAllApiSpecs with a fault: the fallback's result is stored in the cache
\* like a scan's
loadAllApiSpecs_CachingFallback(language, version, globThrows, legacyGlobThrows) ==
    /\ lastOp' = "load"
    /\ IF CacheFresh(apiSpecCache, now)
       THEN /\ lastCall' = CacheHit(language, version)
            /\ UNCHANGED <<apiSpecCache, filledKey>>
       ELSE LET specs == IF globThrows
                         THEN loadLegacyApiSpecs(files, language, legacyGlobThrows)
                         ELSE ScanVersioned(files, language, version)
            IN  /\ apiSpecCache' = [present |-> TRUE, specs |-> specs, lastUpdated |-> now]
                /\ filledKey' = [language |-> language, version |-> version]
                /\ lastCall' = Call(language, version, specs,
                                    IF globThrows THEN FallbackPath(legacyGlobThrows)
                                    ELSE "scan")
    /\ headerCall' = NoHeaderCall
    /\ UNCHANGED <<files, now, otherVars>>

\* the body with a fault: an empty scan is not written to the cache
LoadStep_SkippingEmpty(language, version, globThrows, legacyGlobThrows) ==
    /\ lastOp' = "load"
    /\ IF CacheFresh(apiSpecCache, now)
       THEN /\ lastCall' = CacheHit(language, version)
            /\ UNCHANGED <<apiSpecCache, filledKey>>
       ELSE IF globThrows
       THEN /\ lastCall' = Call(language, version,
                                loadLegacyApiSpecs(files, language, legacyGlobThrows),
                                FallbackPath(legacyGlobThrows))
            /\ UNCHANGED <<apiSpecCache, filledKey>>
       ELSE LET specs == ScanVersioned(files, language, version)
            IN  /\ lastCall' = Call(language, version, specs, "scan")
                /\ IF specs = <<>>
                   THEN UNCHANGED <<apiSpecCache, filledKey>>
                   ELSE /\ apiSpecCache' = [present |-> TRUE, specs |-> specs,
                                            lastUpdated |-> now]
                        /\ filledKey' = [language |-> language, version |-> version]
    /\ headerCall' = NoHeaderCall

\* the body of loadAllApiSpecs: what a call does to the cache and what it
\* returns, for the callers that go on with the returned list
LoadStep(language, version, globThrows, legacyGlobThrows) ==
    /\ lastOp' = "load"
    /\ IF CacheFresh(apiSpecCache, now)
       THEN /\ lastCall' = CacheHit(language, version)
            /\ UNCHANGED <<apiSpecCache, filledKey>>
       ELSE IF globThrows
       THEN /\ lastCall' = Call(language, version,
                                loadLegacyApiSpecs(files, language, legacyGlobThrows),
                                FallbackPath(legacyGlobThrows))
            /\ UNCHANGED <<apiSpecCache, filledKey>>
       ELSE LET specs == ScanVersioned(files, language, version)
            IN  /\ apiSpecCache' = [present |-> TRUE, specs |-> specs, lastUpdated |-> now]
                /\ filledKey' = [language |-> language, version |-> version]
                /\ lastCall' = Call(language, version, specs, "scan")
    /\ headerCall' = NoHeaderCall

\* loadAllApiSpecs(language, version); globThrows: the versioned glob raises
loadAllApiSpecs(language, version, globThrows, legacyGlobThrows) ==
    /\ LoadStep(language, version, globThrows, legacyGlobThrows)
    /\ UNCHANGED <<files, now, otherVars>>

\* clearApiSpecCache with a fault: the list is emptied and the entry, with its
\* timestamp, stays
clearApiSpecCache_KeepingEntry ==
    /\ apiSpecCache' = [apiSpecCache EXCEPT !.specs = <<>>]
    /\ lastOp' = "clear"
    /\ lastCall' = NoCall
    /\ filledKey' = NoKey
    /\ headerCall' = NoHeaderCall
    /\ UNCHANGED <<files, now, otherVars>>

\* clearApiSpecCache()
clearApiSpecCache ==
    /\ apiSpecCache' = NoCache
    /\ lastOp' = "clear"
    /\ lastCall' = NoCall
    /\ filledKey' = NoKey
    /\ headerCall' = NoHeaderCall
    /\ UNCHANGED <<files, now, otherVars>>

----------------------------------------------------------------------------
(* The clock *)

\* the instants at which Date.now() is read: both sides of the expiry of an
\* entry written at 0 and of one written at 1; the two reads a call makes (the
\* cache test and the cache update) fall on the same instant
Instants == {0, 1, CACHE_DURATION, CACHE_DURATION + 1}

Tick ==
    /\ \E t \in Instants : t > now /\ now' = t
    /\ lastCall' = NoCall
    /\ headerCall' = NoHeaderCall
    /\ UNCHANGED <<files, apiSpecCache, lastOp, filledKey, otherVars>>

----------------------------------------------------------------------------

Init ==
    /\ files \in Trees
    /\ apiSpecCache = NoCache
    /\ now = 0
    /\ lastOp = "init"
    /\ lastCall = NoCall
    /\ filledKey = NoKey
    /\ headerCall = NoHeaderCall
    /\ OthersIdle

Load ==
    \E language \in Languages, version \in Versions :
        \E globThrows \in BOOLEAN :
            \E legacyGlobThrows \in (IF globThrows THEN BOOLEAN ELSE {FALSE}) :
                loadAllApiSpecs(language, version, globThrows, legacyGlobThrows)

Next ==
    \/ Load
    \/ clearApiSpecCache
    \/ Tick

Spec == Init /\ [][Next]_vars

----------------------------------------------------------------------------
(* getApiSpecsForHeader *)

\* the number of operations a header entry keeps: operations.slice(0, 8)
HeaderOperationLimit == 8

\* import.meta.glob('/src/content/docs/*/apispecs/**/*.{yaml,yml}')
HeaderGlobMatches(path) ==
    /\ Len(path) >= 6
    /\ SubSeq(path, 1, 3) = <<"src", "content", "docs">>
    /\ path[5] = "apispecs"
    /\ IsYamlName(path[Len(path)])

HeaderGlob(fs) == SelectSeq(fs, LAMBDA f : HeaderGlobMatches(f.path))

\* operations.slice(0, 8).map(...): urlPrefix is "/api/<id>/", query the query
\* string of the links
HeaderOperations(operations, urlPrefix, query) ==
    LET kept == SubSeq(operations, 1,
                       IF Len(operations) < HeaderOperationLimit THEN Len(operations)
                       ELSE HeaderOperationLimit)
    IN  [n \in 1..Len(kept) |->
            [operationId |-> kept[n].operationId,
             summary |-> kept[n].summary,
             path |-> urlPrefix \o kept[n].operationId \o query]]

\* the header entry built from a versioned file; sourcePath is history
HeaderSpecOf(f, serviceName, language, version) ==
    LET query == "?version=" \o version \o "&lang=" \o language
    IN  [id |-> serviceName,
         path |-> "/api/" \o serviceName \o query,
         operations |-> HeaderOperations(extractOperationsFromSpec(f.content.paths),
                                         "/api/" \o serviceName \o "/", query),
         sourcePath |-> f.path]

\* the for loop of getApiSpecsForHeader over languageVersionFiles, from entry i on
RECURSIVE HeaderLoop(_, _, _, _, _, _)
HeaderLoop(entries, i, language, version, processedServices, headerSpecs) ==
    IF i > Len(entries) THEN headerSpecs
    ELSE LET f == entries[i]
             pathMatch == PathMatch(f.path)
             processed == processedServices \cup {pathMatch.serviceName}
         IN  IF ~pathMatch.matched
             THEN HeaderLoop(entries, i + 1, language, version, processedServices, headerSpecs)
             ELSE IF pathMatch.serviceName \in processedServices
             THEN HeaderLoop(entries, i + 1, language, version, processedServices, headerSpecs)
             ELSE IF f.content.parse = "throws"
             THEN HeaderLoop(entries, i + 1, language, version, processed, headerSpecs)
             ELSE IF ~f.content.info
             THEN HeaderLoop(entries, i + 1, language, version, processed, headerSpecs)
             ELSE IF ExtractionRaises(f.content.paths)
             THEN HeaderLoop(entries, i + 1, language, version, processed, headerSpecs)
             ELSE HeaderLoop(entries, i + 1, language, version, processed,
                      Append(headerSpecs,
                             HeaderSpecOf(f, pathMatch.serviceName, language, version)))

\* getApiSpecsForHeaderLegacy(language): the flat-layout specs as header entries
getApiSpecsForHeaderLegacy(fs, language, legacyGlobThrows) ==
    LET legacySpecs == loadLegacyApiSpecs(fs, language, legacyGlobThrows)
        query == "?lang=" \o language
    IN  [n \in 1..Len(legacySpecs) |->
            [id |-> legacySpecs[n].id,
             path |-> "/api/" \o legacySpecs[n].id \o query,
             operations |-> HeaderOperations(
                                extractOperationsFromSpec(legacySpecs[n].spec.paths),
                                "/api/" \o legacySpecs[n].id \o "/", query),
             sourcePath |-> legacySpecs[n].sourcePath]]

\* the versioned scan of getApiSpecsForHeader
HeaderScan(fs, language, version) ==
    HeaderLoop(LanguageVersionFiles(HeaderGlob(fs), language, version), 1,
               language, version, {}, <<>>)

\* the record of a call of getApiSpecsForHeader: what it was asked, what it
\* returned and which path it took (legacy: it returned
\* getApiSpecsForHeaderLegacy; caught: an exception reached its catch)
HeaderCall(language, version, result, path) ==
    [made |-> TRUE, language |-> language, version |-> version,
     result |-> result, legacy |-> path = "legacy", caught |-> path = "caught"]

\* getApiSpecsForHeader(language, version); globThrows: its glob raises, which
\* its catch turns into []
\* getApiSpecsForHeader with a fault: a scan renews the timestamp of the
\* entry of loadAllApiSpecs
getApiSpecsForHeader_RenewingEntry(language, version, globThrows, legacyGlobThrows) ==
    /\ headerCall' =
        IF globThrows THEN HeaderCall(language, version, <<>>, "caught")
        ELSE LET headerSpecs == HeaderScan(files, language, version)
             IN  IF Len(headerSpecs) = 0
                 THEN HeaderCall(language, version,
                          getApiSpecsForHeaderLegacy(files, language, legacyGlobThrows),
                          "legacy")
                 ELSE HeaderCall(language, version, headerSpecs, "versioned")
    /\ apiSpecCache' = IF apiSpecCache.present
                       THEN [apiSpecCache EXCEPT !.lastUpdated = now]
                       ELSE apiSpecCache
    /\ lastCall' = NoCall
    /\ UNCHANGED <<files, now, lastOp, filledKey, otherVars>>

getApiSpecsForHeader(language, version, globThrows, legacyGlobThrows) ==
    /\ headerCall' =
        IF globThrows THEN HeaderCall(language, version, <<>>, "caught")
        ELSE LET headerSpecs == HeaderScan(files, language, version)
             IN  IF Len(headerSpecs) = 0
                 THEN HeaderCall(language, version,
                          getApiSpecsForHeaderLegacy(files, language, legacyGlobThrows),
                          "legacy")
                 ELSE HeaderCall(language, version, headerSpecs, "versioned")
    /\ lastCall' = NoCall
    /\ UNCHANGED <<files, apiSpecCache, now, lastOp, filledKey, otherVars>>

(* The content trees of the header's scan *)

\* the largest number of files in a content tree of the header's scan
MaxHeaderFiles == 2

\* the entries of the paths of a document with five operations on each of two
\* paths, each with an operationId and a summary of its own, the summaries
\* descending in the order of discovery
TenOperations ==
    << [path |-> "/a",
        pathItem |-> [isObject |-> TRUE,
                      operations |-> [get |-> Op("getA", "j", NoTags),
                                      post |-> Op("postA", "i", NoTags),
                                      put |-> Op("putA", "h", NoTags),
                                      delete |-> Op("deleteA", "g", NoTags),
                                      patch |-> Op("patchA", "f", NoTags)]]],
       [path |-> "/b",
        pathItem |-> [isObject |-> TRUE,
                      operations |-> [get |-> Op("getB", "e", NoTags),
                                      post |-> Op("postB", "d", NoTags),
                                      put |-> Op("putB", "c", NoTags),
                                      delete |-> Op("deleteB", "b", NoTags),
                                      patch |-> Op("patchB", "a", NoTags)]]] >>

\* the entries of the paths of a document with two operations
TwoOperations ==
    << [path |-> "/users",
        pathItem |-> [isObject |-> TRUE,
                      operations |-> [get |-> Op("listUsers", "List users", NoTags),
                                      post |-> Op("", "", NoTags)]]] >>

\* what yaml.parse makes of a file's text, with the paths of the document
HeaderContents ==
    { [parse |-> "throws", info |-> FALSE, infoVersion |-> "", versionIsString |-> TRUE,
       paths |-> <<>>],
      [parse |-> "ok", info |-> FALSE, infoVersion |-> "", versionIsString |-> TRUE,
       paths |-> <<>>],
      [parse |-> "ok", info |-> TRUE, infoVersion |-> "", versionIsString |-> TRUE,
       paths |-> TwoOperations],
      [parse |-> "ok", info |-> TRUE, infoVersion |-> "2.0.0", versionIsString |-> TRUE,
       paths |-> TenOperations] }

\* the paths a content tree of the header's scan may hold, in the order the
\* glob lists them: flat files, a file one level above the versioned layout, files
\* of the versioned layout, and a file one level below it
HeaderCandidatePaths ==
    << <<"src", "content", "docs", "en", "apispecs", "legacy.yaml">>,
       <<"src", "content", "docs", "en", "apispecs", "legacy.yml">>,
       <<"src", "content", "docs", "en", "apispecs", "payment-api", "v2", "a.yaml">>,
       <<"src", "content", "docs", "en", "apispecs", "payment-api", "v2", "b.yml">>,
       <<"src", "content", "docs", "en", "apispecs", "payment-api", "v2", "old", "d.yaml">>,
       <<"src", "content", "docs", "en", "apispecs", "v2", "file.yaml">> >>

HeaderTreeOf(P, c) ==
    LET idx == Ascending(P)
    IN  [k \in 1..Len(idx) |-> [path |-> HeaderCandidatePaths[idx[k]], content |-> c[idx[k]]]]

HeaderTrees ==
    UNION { {HeaderTreeOf(P, c) : c \in [P -> HeaderContents]} :
            P \in {Q \in SUBSET (1..Len(HeaderCandidatePaths)) :
                       Cardinality(Q) <= MaxHeaderFiles} }

HeaderInit ==
    /\ files \in HeaderTrees
    /\ apiSpecCache = NoCache
    /\ now = 0
    /\ lastOp = "init"
    /\ lastCall = NoCall
    /\ filledKey = NoKey
    /\ headerCall = NoHeaderCall
    /\ OthersIdle

Header ==
    \E language \in Languages, version \in Versions :
        \E globThrows \in BOOLEAN :
            \E legacyGlobThrows \in (IF globThrows THEN {FALSE} ELSE BOOLEAN) :
                getApiSpecsForHeader(language, version, globThrows, legacyGlobThrows)

HeaderNext == Header

HeaderSpec == HeaderInit /\ [][HeaderNext]_vars

----------------------------------------------------------------------------
(* The loader on documents that make it raise *)

\* the entries of the paths of a document whose operation writes its tags as
\* a string
StringTagged ==
    << [path |-> "/pay",
        pathItem |-> [isObject |-> TRUE,
                      operations |-> [post |-> Op("pay", "Pay", StringTags)]]] >>

\* what yaml.parse makes of a file's text: a file that does not parse, a
\* valid document, a valid document with "version: 2", a number, and a valid
\* document on which the extraction of the operations raises
FaultContents ==
    { [parse |-> "throws", info |-> FALSE, infoVersion |-> "", versionIsString |-> TRUE,
       paths |-> <<>>],
      [parse |-> "ok", info |-> TRUE, infoVersion |-> "", versionIsString |-> TRUE,
       paths |-> TwoOperations],
      [parse |-> "ok", info |-> TRUE, infoVersion |-> "2", versionIsString |-> FALSE,
       paths |-> TwoOperations],
      [parse |-> "ok", info |-> TRUE, infoVersion |-> "2.0.0", versionIsString |-> TRUE,
       paths |-> StringTagged] }

FaultTrees ==
    UNION { {TreeOf(P, c) : c \in [P -> FaultContents]} :
            P \in {Q \in SUBSET (1..Len(CandidatePaths)) : Cardinality(Q) <= MaxFiles} }

FaultInit ==
    /\ files \in FaultTrees
    /\ apiSpecCache = NoCache
    /\ now = 0
    /\ lastOp = "init"
    /\ lastCall = NoCall
    /\ filledKey = NoKey
    /\ headerCall = NoHeaderCall
    /\ OthersIdle

FaultNext ==
    \/ Load
    \/ clearApiSpecCache

FaultSpec == FaultInit /\ [][FaultNext]_vars

----------------------------------------------------------------------------
(* getApiVersions (src/src/utils/api-versions.ts) *)

\* String.prototype.includes
Includes(s, sub) ==
    \E i \in 1..(Len(s) - Len(sub) + 1) : SubSeq(s, i, i + Len(sub) - 1) = sub

\* version.match(/^v\d+$/)
IsVersionDir(version) ==
    /\ Len(version) >= 2
    /\ SubSeq(version, 1, 1) = "v"
    /\ \A i \in 2..Len(version) : IndexIn(SubSeq(version, i, i), Digits) > 0

\* parseInt of a string of digits
RECURSIVE ParseInt(_)
ParseInt(digits) ==
    IF digits = "" THEN 0
    ELSE 10 * ParseInt(SubSeq(digits, 1, Len(digits) - 1))
         + (IndexIn(SubSeq(digits, Len(digits), Len(digits)), Digits) - 1)

\* parseInt(version.substring(1))
VersionNumber(version) == ParseInt(SubSeq(version, 2, Len(version)))

\* filePath.match(/\/apispecs\/[^\/]+\/([^\/]+)\//): the segment after the
\* service directory, when a further segment follows it
VersionPathMatch(filePath) ==
    IF \E k \in 1..Len(filePath) : filePath[k] = "apispecs" /\ Len(filePath) >= k + 3
    THEN LET k == CHOOSE k \in 1..Len(filePath) :
                      /\ filePath[k] = "apispecs" /\ Len(filePath) >= k + 3
                      /\ \A j \in 1..(k - 1) :
                          ~(filePath[j] = "apispecs" /\ Len(filePath) >= j + 3)
         IN  [matched |-> TRUE, version |-> filePath[k + 2]]
    ELSE [matched |-> FALSE, version |-> ""]

\* the filter for the specific service and language
ServiceFiles(entries, serviceName, language) ==
    SelectSeq(entries, LAMBDA f :
        IncludesDirs(f.path, <<"docs", language, "apispecs", serviceName>>))

\* the badge a document gives its version: x-version-status, else Beta or
\* Alpha from info.version, else none (the empty string)
DocumentBadge(content) ==
    IF content.xVersionStatus # "" THEN content.xVersionStatus
    ELSE IF content.infoVersion = "" THEN ""
    ELSE IF Includes(content.infoVersion, "beta") THEN "Beta"
    ELSE IF Includes(content.infoVersion, "alpha") THEN "Alpha"
    ELSE ""

\* the list with the item added unless it holds it: Set.prototype.add, the
\* set in its insertion order
AddOnce(seq, item) ==
    IF \E n \in 1..Len(seq) : seq[n] = item THEN seq ELSE Append(seq, item)

\* the for loop of getApiVersions over serviceFiles, from entry i on; the
\* result is versionSet and versions. semVer.includes raises on a version that
\* is not a string: the catch of the loop body is reached after versionSet.add
\* and before versions.push
RECURSIVE VersionsLoop(_, _, _, _)
VersionsLoop(entries, i, versionSet, versions) ==
    IF i > Len(entries) THEN [versionSet |-> versionSet, versions |-> versions]
    ELSE LET f == entries[i]
             pathMatch == VersionPathMatch(f.path)
         IN  IF ~pathMatch.matched THEN VersionsLoop(entries, i + 1, versionSet, versions)
             ELSE IF ~IsVersionDir(pathMatch.version)
             THEN VersionsLoop(entries, i + 1, versionSet, versions)
             ELSE IF f.content.parse = "throws"
             THEN VersionsLoop(entries, i + 1, versionSet, versions)
             ELSE IF ~f.content.info
             THEN VersionsLoop(entries, i + 1, versionSet, versions)
             ELSE IF /\ f.content.xVersionStatus = ""
                     /\ f.content.infoVersion # ""
                     /\ ~f.content.versionIsString
             THEN VersionsLoop(entries, i + 1, AddOnce(versionSet, pathMatch.version),
                               versions)
             ELSE VersionsLoop(entries, i + 1, AddOnce(versionSet, pathMatch.version),
                      Append(versions, [version |-> pathMatch.version,
                                        badge |-> DocumentBadge(f.content)]))

\* Array.from(versionSet).sort((a, b) => bNum - aNum): descending by number,
\* stable
RECURSIVE SortVersions(_, _, _)
SortVersions(versionSet, i, sorted) ==
    IF i > Len(versionSet) THEN sorted
    ELSE LET k == Cardinality({n \in 1..Len(sorted) :
                       VersionNumber(sorted[n]) >= VersionNumber(versionSet[i])})
         IN  SortVersions(versionSet, i + 1,
                 SubSeq(sorted, 1, k) \o <<versionSet[i]>> \o SubSeq(sorted, k + 1, Len(sorted)))

\* the badge of the first item of versions for the version, none when there is
\* no such item: existingVersion?.badge
ExistingBadge(versions, version) ==
    IF \E n \in 1..Len(versions) : versions[n].version = version
    THEN LET n == CHOOSE n \in 1..Len(versions) :
                      /\ versions[n].version = version
                      /\ \A m \in 1..(n - 1) : versions[m].version # version
         IN  versions[n].badge
    ELSE ""

\* the .map of getApiVersions: index counts from 0; no badge is the empty string
VersionInfo(version, index, versions) ==
    [version |-> version,
     label |-> IF index = 0 THEN version \o " (Latest)" ELSE version,
     badge |-> IF ExistingBadge(versions, version) # ""
               THEN ExistingBadge(versions, version)
               ELSE IF index = 0 THEN "Latest"
               ELSE IF index = Len(versions) - 1 THEN "Legacy"
               ELSE "",
     specExists |-> TRUE]

\* sortedVersions of getApiVersions
DetectVersions(fs, serviceName, language) ==
    LET loop == VersionsLoop(ServiceFiles(VersionedGlob(fs), serviceName, language),
                             1, <<>>, <<>>)
        sorted == SortVersions(loop.versionSet, 1, <<>>)
    IN  [n \in 1..Len(sorted) |-> VersionInfo(sorted[n], n - 1, loop.versions)]

\* fallbackVersions
FallbackVersions ==
    << [version |-> "v2", label |-> "v2 (Latest)", badge |-> "Latest", specExists |-> FALSE],
       [version |-> "v1", label |-> "v1", badge |-> "Legacy", specExists |-> FALSE] >>

\* the record of a call of getApiVersions: what it was asked, what it returned,
\* whether it was served from the cache, whether its catch was reached
VersionsCall(serviceName, language, result, path) ==
    [made |-> TRUE, serviceName |-> serviceName, language |-> language,
     result |-> result, hit |-> path = "hit", caught |-> path = "caught"]

\* versionCache.set(cacheKey, list)
CacheSet(cache, cacheKey, list) ==
    [key \in DOMAIN cache \cup {cacheKey} |-> IF key = cacheKey THEN list ELSE cache[key]]

\* getApiVersions with a fault: the cached list is not looked at
getApiVersions_Uncached(serviceName, language, globThrows) ==
    LET cacheKey == serviceName \o "-" \o language
        list == IF globThrows THEN FallbackVersions
                ELSE DetectVersions(files, serviceName, language)
    IN  /\ versionCache' = CacheSet(versionCache, cacheKey, list)
        /\ versionsCall' = VersionsCall(serviceName, language, list,
                                        IF globThrows THEN "caught" ELSE "scan")
        /\ UNCHANGED <<files, apiSpecCache, now, lastOp, lastCall, filledKey, headerCall,
                       document, extracted, exampleInput, examples,
                       endpointCall, authVars, processVars>>

\* getApiVersions(serviceName, language); globThrows: the glob raises
getApiVersions(serviceName, language, globThrows) ==
    LET cacheKey == serviceName \o "-" \o language
    IN  /\ IF cacheKey \in DOMAIN versionCache
           THEN /\ versionsCall' = VersionsCall(serviceName, language,
                                                versionCache[cacheKey], "hit")
                /\ UNCHANGED versionCache
           ELSE IF globThrows
           THEN /\ versionCache' = CacheSet(versionCache, cacheKey, FallbackVersions)
                /\ versionsCall' = VersionsCall(serviceName, language,
                                                FallbackVersions, "caught")
           ELSE LET sortedVersions == DetectVersions(files, serviceName, language)
                IN  /\ versionCache' = CacheSet(versionCache, cacheKey, sortedVersions)
                    /\ versionsCall' = VersionsCall(serviceName, language,
                                                    sortedVersions, "scan")
        /\ UNCHANGED <<files, apiSpecCache, now, lastOp, lastCall, filledKey, headerCall,
                       document, extracted, exampleInput, examples,
                   endpointCall, authVars, processVars>>

\* clearApiVersionCache()
clearApiVersionCache ==
    /\ versionCache' = <<>>
    /\ versionsCall' = NoVersionsCall
    /\ UNCHANGED <<files, apiSpecCache, now, lastOp, lastCall, filledKey, headerCall,
                   document, extracted, exampleInput, examples,
                   endpointCall, authVars, processVars>>

(* The content trees of the version listing *)

\* the largest number of files in a content tree of the version listing
MaxVersionFiles == 3

\* what yaml.parse makes of a file's text, with info['x-version-status'] (the
\* empty string when absent)
VersionContents ==
    { [parse |-> "throws", info |-> FALSE, infoVersion |-> "", versionIsString |-> TRUE,
       paths |-> <<>>, xVersionStatus |-> ""],
      [parse |-> "ok", info |-> TRUE, infoVersion |-> "2.0.0", versionIsString |-> TRUE,
       paths |-> <<>>, xVersionStatus |-> ""],
      [parse |-> "ok", info |-> TRUE, infoVersion |-> "2.0.0", versionIsString |-> TRUE,
       paths |-> <<>>, xVersionStatus |-> "Deprecated"],
      [parse |-> "ok", info |-> TRUE, infoVersion |-> "3.0.0-beta", versionIsString |-> TRUE,
       paths |-> <<>>, xVersionStatus |-> ""] }

\* the paths a content tree of the version listing may hold, in the order the
\* glob lists them
VersionCandidatePaths ==
    << <<"src", "content", "docs", "en", "apispecs", "payment-api", "latest", "a.yaml">>,
       <<"src", "content", "docs", "en", "apispecs", "payment-api", "v1", "a.yaml">>,
       <<"src", "content", "docs", "en", "apispecs", "payment-api", "v1", "b.yaml">>,
       <<"src", "content", "docs", "en", "apispecs", "payment-api", "v10", "a.yaml">>,
       <<"src", "content", "docs", "en", "apispecs", "payment-api", "v2", "a.yaml">> >>

\* the services the versions are asked of
Services == {"payment-api"}

VersionTreeOf(P, c) ==
    LET idx == Ascending(P)
    IN  [k \in 1..Len(idx) |-> [path |-> VersionCandidatePaths[idx[k]], content |-> c[idx[k]]]]

VersionTrees ==
    UNION { {VersionTreeOf(P, c) : c \in [P -> VersionContents]} :
            P \in {Q \in SUBSET (1..Len(VersionCandidatePaths)) :
                       Cardinality(Q) <= MaxVersionFiles} }

VersionsInit ==
    /\ files \in VersionTrees
    /\ apiSpecCache = NoCache
    /\ now = 0
    /\ lastOp = "init"
    /\ lastCall = NoCall
    /\ filledKey = NoKey
    /\ headerCall = NoHeaderCall
    /\ OthersIdle

ListVersions ==
    \E serviceName \in Services, language \in Languages, globThrows \in BOOLEAN :
        getApiVersions(serviceName, language, globThrows)

VersionsNext ==
    \/ ListVersions
    \/ clearApiVersionCache

VersionsSpec == VersionsInit /\ [][VersionsNext]_vars

(* The version listing while time passes and the files change *)

\* the largest number of files in the trees that change
MaxChangingFiles == 1

\* the trees the content tree changes between: a.yaml under v1 and under v2,
\* without a version status
ChangingTrees ==
    {tree \in VersionTrees :
        /\ Len(tree) <= MaxChangingFiles
        /\ \A k \in 1..Len(tree) :
               /\ tree[k].path[7] \in {"v1", "v2"}
               /\ tree[k].path[8] = "a.yaml"
               /\ tree[k].content.xVersionStatus = ""}

\* files are added, removed or rewritten on disk
ChangeFiles ==
    /\ files' \in ChangingTrees \ {files}
    /\ UNCHANGED <<apiSpecCache, now, lastOp, lastCall, filledKey, headerCall, otherVars>>

VersionCacheInit ==
    /\ files \in ChangingTrees
    /\ apiSpecCache = NoCache
    /\ now = 0
    /\ lastOp = "init"
    /\ lastCall = NoCall
    /\ filledKey = NoKey
    /\ headerCall = NoHeaderCall
    /\ OthersIdle

VersionCacheNext ==
    \/ ListVersions
    \/ clearApiVersionCache
    \/ ChangeFiles
    \/ Tick

VersionCacheSpec == VersionCacheInit /\ [][VersionCacheNext]_vars

----------------------------------------------------------------------------
(* extractOperationsFromSpec on the documents *)

\* the largest number of paths of a document
MaxPaths == 2

\* the paths a document may hold
OperationPaths == <<"/users/{id}/orders", "/users/{id}", "/users/:id">>

\* an operation without operationId, summary and tags
BareOp == Op("", "", NoTags)

\* the path items a document may hold: one that is not an object, one with a
\* bare get, one whose operations declare their operationId, summary and tags,
\* one with a bare operation under each of the seven methods, one whose
\* operations share their summary, one whose get declares the id the synthesis
\* gives /users/{id}, and one with the key trace, which is not one of the seven
\* methods, and a get that is not an object
PathItems ==
    { [isObject |-> FALSE, operations |-> <<>>],
      [isObject |-> TRUE, operations |-> [get |-> BareOp]],
      [isObject |-> TRUE,
       operations |-> [get |-> Op("listUsers", "List users", Tags(<<"users">>)),
                       post |-> Op("createUser", "Create user", NoTags)]],
      [isObject |-> TRUE,
       operations |-> [get |-> BareOp, post |-> BareOp, put |-> BareOp, delete |-> BareOp,
                       patch |-> BareOp, options |-> BareOp, head |-> BareOp]],
      [isObject |-> TRUE,
       operations |-> [get |-> Op("", "Users", NoTags), delete |-> Op("", "Users", NoTags)]],
      [isObject |-> TRUE, operations |-> [get |-> Op("get_users_id", "", NoTags)]],
      [isObject |-> TRUE,
       operations |-> [trace |-> Op("traceUsers", "Trace", NoTags),
                       get |-> [isObject |-> FALSE, operationId |-> "", summary |-> "",
                                tags |-> NoTags],
                       post |-> BareOp]] }

\* the document with the paths P of OperationPaths, in the order of the keys of
\* spec.paths given by the sequence order, and the path items c
DocumentOf(order, c) ==
    [n \in 1..Len(order) |-> [path |-> OperationPaths[order[n]], pathItem |-> c[order[n]]]]

\* the sequences without repetition of at most MaxPaths indices of OperationPaths
PathOrders ==
    {order \in UNION {[1..n -> 1..Len(OperationPaths)] : n \in 0..MaxPaths} :
        \A a, b \in 1..Len(order) : order[a] = order[b] => a = b}

Documents ==
    UNION { {DocumentOf(order, c) : c \in [{order[n] : n \in 1..Len(order)} -> PathItems]} :
            order \in PathOrders }

\* const operations = extractOperationsFromSpec(spec, specId) on the document
Extract ==
    /\ extracted' = IF ExtractionRaises(document)
                    THEN [done |-> TRUE, raised |-> TRUE, list |-> <<>>]
                    ELSE [done |-> TRUE, raised |-> FALSE,
                          list |-> extractOperationsFromSpec(document)]
    /\ UNCHANGED <<files, apiSpecCache, now, lastOp, lastCall, filledKey, headerCall,
                   versionCache, versionsCall, document, exampleInput, examples,
                   endpointCall, authVars, processVars>>

OperationsInit ==
    /\ files = <<>>
    /\ apiSpecCache = NoCache
    /\ now = 0
    /\ lastOp = "init"
    /\ lastCall = NoCall
    /\ filledKey = NoKey
    /\ headerCall = NoHeaderCall
    /\ versionCache = <<>>
    /\ versionsCall = NoVersionsCall
    /\ document \in Documents
    /\ extracted = NoOperations
    /\ exampleInput = NoInput
    /\ examples = NoExamples
    /\ endpointCall = NoEndpointCall
    /\ AuthIdle
    /\ ProcessIdle

OperationsNext == Extract

OperationsSpec == OperationsInit /\ [][OperationsNext]_vars

----------------------------------------------------------------------------
(* Reading JSON values *)

\* the value is truthy: not undefined, null, "", 0 or false
Truthy(v) ==
    /\ v.kind \notin {"undefined", "null"}
    /\ ~(v.kind = "string" /\ v.string = "")
    /\ ~(v.kind = "number" /\ v.number = 0)
    /\ ~(v.kind = "boolean" /\ ~v.boolean)

\* key in node
Has(node, key) ==
    /\ node.kind = "object"
    /\ \E i \in 1..Len(node.elements) : node.elements[i].name = key

\* node[key] of a value that is not undefined or null: a member of an object,
\* undefined for any other value and for a key the object does not have
Get(node, key) ==
    IF Has(node, key)
    THEN node.elements[CHOOSE i \in 1..Len(node.elements) : node.elements[i].name = key].value
    ELSE Undefined

\* Object.entries(node)
Entries(node) == IF node.kind = "object" THEN node.elements ELSE <<>>

\* array[0]
First(array) ==
    IF array.kind = "array" /\ Len(array.elements) > 0
    THEN array.elements[1].value
    ELSE Undefined

\* s.replace(pattern, replacement) with a string pattern: the first occurrence
ReplaceFirst(s, pattern, replacement) ==
    LET At(i) == SubSeq(s, i, i + Len(pattern) - 1) = pattern
        places == {i \in 1..(Len(s) - Len(pattern) + 1) : At(i)}
    IN  IF places = {} THEN s
        ELSE LET i == CHOOSE p \in places : \A q \in places : p <= q
             IN  SubSeq(s, 1, i - 1) \o replacement \o SubSeq(s, i + Len(pattern), Len(s))

\* s.split('/')
RECURSIVE Split(_, _, _)
Split(s, i, current) ==
    IF i > Len(s) THEN <<current>>
    ELSE IF SubSeq(s, i, i) = "/" THEN <<current>> \o Split(s, i + 1, "")
    ELSE Split(s, i + 1, current \o SubSeq(s, i, i))

\* the object of the generated entries, unless generating one of them raised
ObjectOf(names, results) ==
    IF \E i \in 1..Len(results) : results[i].raised THEN Raised
    ELSE Returned(Obj([i \in 1..Len(results) |-> Member(names[i].name, results[i].value)]))

\* [example] of the generated example, unless generating it raised
ArrayOf(result) ==
    IF result.raised THEN Raised ELSE Returned(Arr(<<result.value>>))

----------------------------------------------------------------------------
(* generateExampleFromSchema (src/src/utils/dynamic-openapi.ts) *)

\* for (const part of refPath) { resolvedSchema = resolvedSchema?.[part];
\* if (!resolvedSchema) return null; }: undefined stands for the early return
RECURSIVE ResolveLoop(_, _, _)
ResolveLoop(resolvedSchema, refPath, i) ==
    IF i > Len(refPath) THEN resolvedSchema
    ELSE LET next == Get(resolvedSchema, refPath[i])
         IN  IF ~Truthy(next) THEN Undefined ELSE ResolveLoop(next, refPath, i + 1)

RECURSIVE generateExampleFromSchema(_, _)
generateExampleFromSchema(schema, spec) ==
    IF ~Truthy(schema) THEN Returned(Null)
    ELSE IF Get(schema, "example") # Undefined THEN Returned(Get(schema, "example"))
    ELSE IF Truthy(Get(schema, "$ref"))
    THEN IF Get(schema, "$ref").kind # "string" THEN Raised
         ELSE LET refPath == Split(ReplaceFirst(Get(schema, "$ref").string, "#/", ""), 1, "")
                  resolvedSchema == ResolveLoop(spec, refPath, 1)
              IN  IF resolvedSchema = Undefined THEN Returned(Null)
                  ELSE generateExampleFromSchema(resolvedSchema, spec)
    ELSE LET type == Get(schema, "type")
             format == Get(schema, "format")
             default == Get(schema, "default")
         IN  CASE type = Str("string") ->
                    IF format = Str("email") THEN Returned(Str("user@example.com"))
                    ELSE IF format = Str("date-time") THEN Returned(Str("2024-01-01T00:00:00Z"))
                    ELSE IF format = Str("date") THEN Returned(Str("2024-01-01"))
                    ELSE IF Truthy(Get(schema, "enum")) THEN Returned(First(Get(schema, "enum")))
                    ELSE Returned(Str("string"))
               [] type \in {Str("number"), Str("integer")} ->
                    IF default # Undefined THEN Returned(default) ELSE Returned(Num(0))
               [] type = Str("boolean") ->
                    IF default # Undefined THEN Returned(default) ELSE Returned(Bool(FALSE))
               [] type = Str("array") ->
                    IF Truthy(Get(schema, "items"))
                    THEN ArrayOf(generateExampleFromSchema(Get(schema, "items"), spec))
                    ELSE Returned(Arr(<<>>))
               [] type = Str("object") ->
                    IF Truthy(Get(schema, "properties"))
                    THEN LET entries == Entries(Get(schema, "properties"))
                         IN  ObjectOf(entries,
                                 [i \in 1..Len(entries) |->
                                     generateExampleFromSchema(entries[i].value, spec)])
                    ELSE Returned(Obj(<<>>))
               [] OTHER -> Returned(Null)

----------------------------------------------------------------------------
(* resolveSchemaRef, generateExample (src/src/utils/openapi.ts) *)

\* null, or the schema of the name under components.schemas
resolveSchemaRef(ref, spec) ==
    IF ~StartsWith(ref, "#/components/schemas/") THEN Null
    ELSE LET schemaName == ReplaceFirst(ref, "#/components/schemas/", "")
             components == Get(spec, "components")
             schemas == IF components.kind \in {"undefined", "null"} THEN Undefined
                        ELSE Get(components, "schemas")
             found == IF schemas.kind \in {"undefined", "null"} THEN Undefined
                      ELSE Get(schemas, schemaName)
         IN  IF Truthy(found) THEN found ELSE Null

RECURSIVE generateExample(_, _)
generateExample(schema, spec) ==
    IF schema.kind \notin {"object", "array"} THEN Raised
    ELSE IF Has(schema, "$ref")
    THEN IF Get(schema, "$ref").kind # "string" THEN Raised
         ELSE LET resolvedSchema == resolveSchemaRef(Get(schema, "$ref").string, spec)
              IN  IF ~Truthy(resolvedSchema) THEN Returned(Null)
                  ELSE generateExample(resolvedSchema, spec)
    ELSE IF Get(schema, "example") # Undefined THEN Returned(Get(schema, "example"))
    ELSE LET type == Get(schema, "type")
             format == Get(schema, "format")
             default == Get(schema, "default")
         IN  CASE type = Str("string") ->
                    IF format = Str("email") THEN Returned(Str("user@example.com"))
                    ELSE IF format = Str("date-time") THEN Returned(Str("2023-12-01T10:00:00Z"))
                    ELSE IF Truthy(Get(schema, "enum")) THEN Returned(First(Get(schema, "enum")))
                    ELSE Returned(Str("string"))
               [] type \in {Str("number"), Str("integer")} ->
                    IF Truthy(default) THEN Returned(default) ELSE Returned(Num(0))
               [] type = Str("boolean") ->
                    IF Truthy(default) THEN Returned(default) ELSE Returned(Bool(FALSE))
               [] type = Str("array") ->
                    IF Truthy(Get(schema, "items"))
                    THEN ArrayOf(generateExample(Get(schema, "items"), spec))
                    ELSE Returned(Arr(<<>>))
               [] type = Str("object") ->
                    IF Truthy(Get(schema, "properties"))
                    THEN LET entries == Entries(Get(schema, "properties"))
                         IN  ObjectOf(entries,
                                 [i \in 1..Len(entries) |->
                                     generateExample(entries[i].value, spec)])
                    ELSE Returned(Obj(<<>>))
               [] OTHER -> Returned(Null)

----------------------------------------------------------------------------
(* OpenAPICodeExtractor.generateExampleFromSchema (src/src/utils/header.ts) *)

\* for (const segment of refPath) { refSchema = refSchema[segment]; }: reading
\* a property of undefined or null raises a TypeError
RECURSIVE RefLoop(_, _, _)
RefLoop(refSchema, refPath, i) ==
    IF i > Len(refPath) THEN Returned(refSchema)
    ELSE IF refSchema.kind \in {"undefined", "null"} THEN Raised
    ELSE RefLoop(Get(refSchema, refPath[i]), refPath, i + 1)

\* schema.required?.includes(key) || !schema.required, for a required that is
\* undefined, null, a string or an array
RequiredOrAll(required, key) ==
    \/ /\ required.kind = "array"
       /\ \E i \in 1..Len(required.elements) : required.elements[i].value = Str(key)
    \/ /\ required.kind = "string"
       /\ \E i \in 1..(Len(required.string) - Len(key) + 1) :
              SubSeq(required.string, i, i + Len(key) - 1) = key
    \/ ~Truthy(required)

RECURSIVE OpenAPICodeExtractor_generateExampleFromSchema(_, _)
OpenAPICodeExtractor_generateExampleFromSchema(schema, spec) ==
    IF ~Truthy(schema) THEN Returned(Null)
    ELSE IF Get(schema, "example") # Undefined THEN Returned(Get(schema, "example"))
    ELSE IF Truthy(Get(schema, "$ref"))
    THEN IF Get(schema, "$ref").kind # "string" THEN Raised
         ELSE LET refPath == Split(ReplaceFirst(Get(schema, "$ref").string, "#/", ""), 1, "")
                  refSchema == RefLoop(spec, refPath, 1)
              IN  IF refSchema.raised THEN Raised
                  ELSE OpenAPICodeExtractor_generateExampleFromSchema(refSchema.value, spec)
    ELSE LET type == Get(schema, "type")
             format == Get(schema, "format")
             required == Get(schema, "required")
         IN  CASE type = Str("object") ->
                    LET entries == IF Truthy(Get(schema, "properties"))
                                   THEN Entries(Get(schema, "properties"))
                                   ELSE <<>>
                        kept == SelectSeq(entries, LAMBDA e : RequiredOrAll(required, e.name))
                    IN  IF entries # <<>> /\ required.kind \in {"boolean", "number", "object"}
                        THEN Raised
                        ELSE ObjectOf(kept,
                                 [i \in 1..Len(kept) |->
                                     OpenAPICodeExtractor_generateExampleFromSchema(
                                         kept[i].value, spec)])
               [] type = Str("array") ->
                    IF Truthy(Get(schema, "items"))
                    THEN ArrayOf(OpenAPICodeExtractor_generateExampleFromSchema(
                                     Get(schema, "items"), spec))
                    ELSE Returned(Arr(<<>>))
               [] type = Str("string") ->
                    IF Truthy(Get(schema, "enum")) THEN Returned(First(Get(schema, "enum")))
                    ELSE IF format = Str("email") THEN Returned(Str("user@example.com"))
                    ELSE IF format = Str("date") THEN Returned(Str("2024-01-15"))
                    ELSE IF format = Str("date-time") THEN Returned(Str("2024-01-15T10:30:00Z"))
                    ELSE IF format = Str("uuid")
                    THEN Returned(Str("550e8400-e29b-41d4-a716-446655440000"))
                    ELSE Returned(Str("string_value"))
               [] type \in {Str("number"), Str("integer")} ->
                    IF Truthy(Get(schema, "enum")) THEN Returned(First(Get(schema, "enum")))
                    ELSE IF Truthy(Get(schema, "minimum")) THEN Returned(Get(schema, "minimum"))
                    ELSE Returned(Num(0))
               [] type = Str("boolean") -> Returned(Bool(TRUE))
               [] OTHER -> Returned(Null)

----------------------------------------------------------------------------
(* The example generators on the schemas *)

MaxNesting == 1

\* a schema with the members
Schema(members) == Obj(members)

StatusEnum == Arr(<<Str("active"), Str("inactive")>>)

\* the schemas that hold no other schema
LeafSchemas ==
    { Schema(<<Member("type", Str("string")), Member("format", Str("email"))>>),
      Schema(<<Member("type", Str("string")), Member("format", Str("date-time"))>>),
      Schema(<<Member("type", Str("string")), Member("format", Str("date"))>>),
      Schema(<<Member("type", Str("string")), Member("format", Str("uuid"))>>),
      Schema(<<Member("type", Str("string")), Member("format", Str("email")),
               Member("enum", StatusEnum)>>),
      Schema(<<Member("type", Str("string")), Member("format", Str("date")),
               Member("enum", StatusEnum)>>),
      Schema(<<Member("type", Str("string")), Member("enum", StatusEnum)>>),
      Schema(<<Member("type", Str("string"))>>),
      Schema(<<Member("type", Str("integer"))>>),
      Schema(<<Member("type", Str("integer")), Member("default", Num(0))>>),
      Schema(<<Member("type", Str("number")), Member("default", Num(5))>>),
      Schema(<<Member("type", Str("integer")), Member("minimum", Num(3))>>),
      Schema(<<Member("type", Str("boolean"))>>),
      Schema(<<Member("type", Str("boolean")), Member("default", Bool(FALSE))>>),
      Schema(<<Member("type", Str("boolean")), Member("default", Bool(TRUE))>>),
      Schema(<<Member("type", Str("array"))>>),
      Schema(<<Member("type", Str("object"))>>),
      Schema(<<Member("type", Str("file"))>>),
      Schema(<<>>),
      Schema(<<Member("type", Str("string")), Member("example", Str("verbatim"))>>),
      Schema(<<Member("type", Str("integer")), Member("example", Num(0))>>),
      Schema(<<Member("$ref", Str("#/components/schemas/User")),
               Member("example", Str("verbatim"))>>),
      Schema(<<Member("$ref", Str("#/components/schemas/User"))>>),
      Schema(<<Member("$ref", Str("#/components/schemas/Missing"))>>),
      Schema(<<Member("$ref", Str("#/definitions/User"))>>) }

\* type: array with the items
ArraySchema(items) == Schema(<<Member("type", Str("array")), Member("items", items)>>)

\* type: object with the schema as its property value and a property name
ObjectSchema(value) ==
    Schema(<<Member("type", Str("object")),
             Member("properties", Obj(<<Member("value", value),
                                        Member("name", Schema(<<Member("type", Str("string"))>>))>>))>>)

\* the same with required: [name]
RequiredObjectSchema(value) ==
    Schema(<<Member("type", Str("object")),
             Member("properties", Obj(<<Member("value", value),
                                        Member("name", Schema(<<Member("type", Str("string"))>>))>>)),
             Member("required", Arr(<<Str("name")>>))>>)

\* the schemas that hold schemas in at most n levels
RECURSIVE NestedSchemas(_)
NestedSchemas(n) ==
    IF n = 0 THEN LeafSchemas
    ELSE LET inner == NestedSchemas(n - 1)
         IN  inner \cup {ArraySchema(s) : s \in inner}
                   \cup {ObjectSchema(s) : s \in inner}
                   \cup {RequiredObjectSchema(s) : s \in inner}

Schemas == NestedSchemas(MaxNesting)

\* the root documents: without components, with components: null, with empty
\* components, and with schemas under components and under definitions
RootDocuments ==
    { Obj(<<Member("openapi", Str("3.0.0"))>>),
      Obj(<<Member("components", Null)>>),
      Obj(<<Member("components", Obj(<<>>))>>),
      Obj(<<Member("components", Obj(<<Member("schemas", Obj(<<
               Member("User", RequiredObjectSchema(
                   Schema(<<Member("type", Str("integer"))>>)))>>))>>))>>),
      Obj(<<Member("components", Obj(<<Member("schemas", Obj(<<
               Member("User", Schema(<<Member("type", Str("string")),
                                       Member("format", Str("email"))>>))>>))>>)),
            Member("definitions", Obj(<<
               Member("User", Schema(<<Member("type", Str("integer")),
                                       Member("default", Num(7))>>))>>))>>) }

\* one generator has answered for the schema
Answer(examplesBefore, generator, result) ==
    [examplesBefore EXCEPT !.done = @ \cup {generator}, ![generator] = result]

\* generateExampleFromSchema(mediaType.schema, spec) of dynamic-openapi.ts
GenerateDynamic ==
    /\ "dynamic" \notin examples.done
    /\ examples' = Answer(examples, "dynamic",
                       generateExampleFromSchema(exampleInput.schema, exampleInput.spec))
    /\ UNCHANGED <<files, apiSpecCache, now, lastOp, lastCall, filledKey, headerCall,
                   versionCache, versionsCall, document, extracted, exampleInput,
                   endpointCall, authVars, processVars>>

\* generateExample(schema, spec) of openapi.ts
GenerateOpenapi ==
    /\ "openapi" \notin examples.done
    /\ examples' = Answer(examples, "openapi",
                       generateExample(exampleInput.schema, exampleInput.spec))
    /\ UNCHANGED <<files, apiSpecCache, now, lastOp, lastCall, filledKey, headerCall,
                   versionCache, versionsCall, document, extracted, exampleInput,
                   endpointCall, authVars, processVars>>

\* this.generateExampleFromSchema(jsonContent.schema) of header.ts
GenerateHeader ==
    /\ "header" \notin examples.done
    /\ examples' = Answer(examples, "header",
                       OpenAPICodeExtractor_generateExampleFromSchema(
                           exampleInput.schema, exampleInput.spec))
    /\ UNCHANGED <<files, apiSpecCache, now, lastOp, lastCall, filledKey, headerCall,
                   versionCache, versionsCall, document, extracted, exampleInput,
                   endpointCall, authVars, processVars>>

ExamplesInit ==
    /\ files = <<>>
    /\ apiSpecCache = NoCache
    /\ now = 0
    /\ lastOp = "init"
    /\ lastCall = NoCall
    /\ filledKey = NoKey
    /\ headerCall = NoHeaderCall
    /\ versionCache = <<>>
    /\ versionsCall = NoVersionsCall
    /\ document = <<>>
    /\ extracted = NoOperations
    /\ exampleInput \in [schema : Schemas, spec : RootDocuments]
    /\ examples = NoExamples
    /\ endpointCall = NoEndpointCall
    /\ AuthIdle
    /\ ProcessIdle

ExamplesNext ==
    \/ GenerateDynamic
    \/ GenerateOpenapi
    \/ GenerateHeader

ExamplesSpec == ExamplesInit /\ [][ExamplesNext]_vars

----------------------------------------------------------------------------
(* generateExampleFromSchema (src/src/utils/dynamic-openapi.ts), call by call *)

MaxCalls == 10

\* the fault variant: a call that makes itself again
NestedCalls_Again(schema, spec) == [raised |-> FALSE, schemas |-> <<schema>>]

\* the calls of generateExampleFromSchema that the call for the schema makes:
\* for the resolved reference, for the items, for the value of each property
NestedCalls(schema, spec) ==
    IF ~Truthy(schema) THEN [raised |-> FALSE, schemas |-> <<>>]
    ELSE IF Get(schema, "example") # Undefined THEN [raised |-> FALSE, schemas |-> <<>>]
    ELSE IF Truthy(Get(schema, "$ref"))
    THEN IF Get(schema, "$ref").kind # "string" THEN [raised |-> TRUE, schemas |-> <<>>]
         ELSE LET Resolved(refPath) == ResolveLoop(spec, refPath, 1)
                  RefPath(replaced) == Split(replaced, 1, "")
                  \* the string and refPath are computed once, as members of a set
                  resolvedSchema ==
                      CHOOSE resolved \in
                          { Resolved(refPath) :
                              refPath \in
                                  { RefPath(replaced) :
                                      replaced \in {ReplaceFirst(Get(schema, "$ref").string,
                                                                 "#/", "")} } } : TRUE
              IN  IF resolvedSchema = Undefined THEN [raised |-> FALSE, schemas |-> <<>>]
                  ELSE [raised |-> FALSE, schemas |-> <<resolvedSchema>>]
    ELSE LET type == Get(schema, "type")
         IN  CASE type = Str("array") ->
                    IF Truthy(Get(schema, "items"))
                    THEN [raised |-> FALSE, schemas |-> <<Get(schema, "items")>>]
                    ELSE [raised |-> FALSE, schemas |-> <<>>]
               [] type = Str("object") ->
                    IF Truthy(Get(schema, "properties"))
                    THEN LET entries == Entries(Get(schema, "properties"))
                         IN  [raised |-> FALSE,
                              schemas |-> [i \in 1..Len(entries) |-> entries[i].value]]
                    ELSE [raised |-> FALSE, schemas |-> <<>>]
               [] OTHER -> [raised |-> FALSE, schemas |-> <<>>]

\* a caller calls generateExampleFromSchema(schema, spec)
StartGeneration ==
    /\ ~generation.started
    /\ generation' = [started |-> TRUE, pending |-> <<exampleInput.schema>>, calls |-> 0]
    /\ UNCHANGED <<files, apiSpecCache, now, lastOp, lastCall, filledKey, headerCall,
                   versionCache, versionsCall, document, extracted, exampleInput, examples,
                   endpointCall, authVars, loaderCalls>>

\* the next call is made: it returns at once, or raises and ends the
\* generation, or it makes its nested calls first; the calls are followed up
\* to the MaxCalls-th
GenerationStep ==
    /\ generation.started
    /\ generation.pending # <<>>
    /\ generation.calls < MaxCalls
    /\ LET nested == NestedCalls(Head(generation.pending), exampleInput.spec)
       IN  generation' =
               [started |-> TRUE,
                pending |-> IF nested.raised THEN <<>>
                            ELSE nested.schemas \o Tail(generation.pending),
                calls |-> generation.calls + 1]
    /\ UNCHANGED <<files, apiSpecCache, now, lastOp, lastCall, filledKey, headerCall,
                   versionCache, versionsCall, document, extracted, exampleInput, examples,
                   endpointCall, authVars, loaderCalls>>

\* the root documents whose references lead to a reference: User refers to
\* Account, and the value of a property of Order refers to User
ChainedRootDocuments ==
    { Obj(<<Member("components", Obj(<<Member("schemas", Obj(<<
               Member("User", Schema(<<Member("$ref", Str("#/components/schemas/Account"))>>)),
               Member("Account", Schema(<<Member("type", Str("integer"))>>)),
               Member("Order", ObjectSchema(
                   Schema(<<Member("$ref", Str("#/components/schemas/User"))>>)))>>))>>))>>) }

\* the root documents whose references lead back: User refers to itself, User
\* and Account refer to each other, the value of a property of User refers to User
CyclicRootDocuments ==
    { Obj(<<Member("components", Obj(<<Member("schemas", Obj(<<
               Member("User", Schema(<<Member("$ref", Str("#/components/schemas/User"))>>))
               >>))>>))>>),
      Obj(<<Member("components", Obj(<<Member("schemas", Obj(<<
               Member("User", Schema(<<Member("$ref", Str("#/components/schemas/Account"))>>)),
               Member("Account", Schema(<<Member("$ref", Str("#/components/schemas/User"))>>))
               >>))>>))>>),
      Obj(<<Member("components", Obj(<<Member("schemas", Obj(<<
               Member("User", ObjectSchema(
                   Schema(<<Member("$ref", Str("#/components/schemas/User"))>>)))
               >>))>>))>>) }

GenerationInit ==
    /\ files = <<>>
    /\ apiSpecCache = NoCache
    /\ now = 0
    /\ lastOp = "init"
    /\ lastCall = NoCall
    /\ filledKey = NoKey
    /\ headerCall = NoHeaderCall
    /\ versionCache = <<>>
    /\ versionsCall = NoVersionsCall
    /\ document = <<>>
    /\ extracted = NoOperations
    /\ exampleInput \in [schema : Schemas,
                         spec : RootDocuments \cup ChainedRootDocuments
                                              \cup CyclicRootDocuments]
    /\ examples = NoExamples
    /\ endpointCall = NoEndpointCall
    /\ AuthIdle
    /\ ProcessIdle

GenerationNext ==
    \/ StartGeneration
    \/ GenerationStep

\* a call that has been made runs on: the generator is synchronous code
GenerationSpec == GenerationInit /\ [][GenerationNext]_vars /\ WF_vars(GenerationNext)

----------------------------------------------------------------------------
(* loadAllApiSpecs, statement by statement, in the event loop *)

\* the fault variant: the glob is awaited, and the call gives up the thread
ThreadAfterMiss_Awaited(c) == 0

\* who holds the thread between the cache check of the call c and its cache
\* write: the call itself, for the glob is eager and the body holds no await
ThreadAfterMiss(c) == c

\* the event loop runs the call c: it holds the thread, or it waits for the
\* thread and no call holds it
Runs(c) ==
    \/ loaderCalls.running = c
    \/ loaderCalls.running = 0 /\ loaderCalls.call[c].pc # "idle"

\* the call c is at the position, and holder holds the thread
At(c, pc, holder) ==
    [running |-> holder,
     call |-> [loaderCalls.call EXCEPT ![c].pc = pc]]

\* the variables no statement of loadAllApiSpecs writes
loaderFrame ==
    <<files, now, versionCache, versionsCall, document, extracted, exampleInput, examples,
      endpointCall, authVars, generation>>

\* a task calls loadAllApiSpecs(language, version): no call holds the thread
EnterLoad(c, language, version) ==
    /\ loaderCalls.running = 0
    /\ loaderCalls.call[c].pc = "idle"
    /\ loaderCalls' =
           [running |-> c,
            call |-> [loaderCalls.call EXCEPT
                          ![c] = [pc |-> "check", language |-> language,
                                  version |-> version, specs |-> <<>>]]]
    /\ UNCHANGED <<apiSpecCache, lastOp, lastCall, filledKey, headerCall, loaderFrame>>

\* the cache check: a fresh entry is filtered and returned
CheckCache(c) ==
    /\ Runs(c)
    /\ loaderCalls.call[c].pc = "check"
    /\ IF CacheFresh(apiSpecCache, now)
       THEN /\ lastCall' = CacheHit(loaderCalls.call[c].language, loaderCalls.call[c].version)
            /\ lastOp' = "load"
            /\ headerCall' = NoHeaderCall
            /\ loaderCalls' = [running |-> 0,
                               call |-> [loaderCalls.call EXCEPT ![c] = NoLoaderCall]]
       ELSE /\ loaderCalls' = At(c, "scan", ThreadAfterMiss(c))
            /\ UNCHANGED <<lastOp, lastCall, headerCall>>
    /\ UNCHANGED <<apiSpecCache, filledKey, loaderFrame>>

\* the glob and the loop over its files; a raising glob returns the legacy list
ScanFiles(c, globThrows, legacyGlobThrows) ==
    /\ Runs(c)
    /\ loaderCalls.call[c].pc = "scan"
    /\ LET language == loaderCalls.call[c].language
           version == loaderCalls.call[c].version
       IN  IF globThrows
           THEN /\ lastCall' = Call(language, version,
                                    loadLegacyApiSpecs(files, language, legacyGlobThrows),
                                    FallbackPath(legacyGlobThrows))
                /\ lastOp' = "load"
                /\ headerCall' = NoHeaderCall
                /\ loaderCalls' = [running |-> 0,
                                   call |-> [loaderCalls.call EXCEPT ![c] = NoLoaderCall]]
           ELSE /\ loaderCalls' =
                       [running |-> ThreadAfterMiss(c),
                        call |-> [loaderCalls.call EXCEPT
                                      ![c].pc = "write",
                                      ![c].specs = ScanVersioned(files, language, version)]]
                /\ UNCHANGED <<lastOp, lastCall, headerCall>>
    /\ UNCHANGED <<apiSpecCache, filledKey, loaderFrame>>

\* the cache write and the return of the scanned list
WriteCache(c) ==
    /\ Runs(c)
    /\ loaderCalls.call[c].pc = "write"
    /\ LET mine == loaderCalls.call[c]
       IN  /\ apiSpecCache' = [present |-> TRUE, specs |-> mine.specs, lastUpdated |-> now]
           /\ filledKey' = [language |-> mine.language, version |-> mine.version]
           /\ lastCall' = Call(mine.language, mine.version, mine.specs, "scan")
    /\ lastOp' = "load"
    /\ headerCall' = NoHeaderCall
    /\ loaderCalls' = [running |-> 0,
                       call |-> [loaderCalls.call EXCEPT ![c] = NoLoaderCall]]
    /\ UNCHANGED loaderFrame

\* the largest number of files under the calls that are followed
MaxCallFiles == 1

LoaderCallsInit ==
    /\ files \in {tree \in Trees : Len(tree) <= MaxCallFiles}
    /\ apiSpecCache = NoCache
    /\ now = 0
    /\ lastOp = "init"
    /\ lastCall = NoCall
    /\ filledKey = NoKey
    /\ headerCall = NoHeaderCall
    /\ OthersIdle

Enter ==
    \E c \in Callers, language \in Languages, version \in Versions :
        EnterLoad(c, language, version)

Check == \E c \in Callers : CheckCache(c)

Scan ==
    \E c \in Callers, globThrows \in BOOLEAN :
        \E legacyGlobThrows \in (IF globThrows THEN BOOLEAN ELSE {FALSE}) :
            ScanFiles(c, globThrows, legacyGlobThrows)

Write == \E c \in Callers : WriteCache(c)

\* clearApiSpecCache is synchronous: it runs while no call holds the thread
ClearBetweenCalls == loaderCalls.running = 0 /\ clearApiSpecCache

LoaderCallsNext ==
    \/ Enter
    \/ Check
    \/ Scan
    \/ Write
    \/ ClearBetweenCalls
    \/ Tick

LoaderCallsSpec == LoaderCallsInit /\ [][LoaderCallsNext]_vars

----------------------------------------------------------------------------
(* loadAllApiSpecs and getApiSpecsForHeader in one process *)

\* the largest number of files under the two functions
MaxSharedFiles == 1

\* the trees under the two functions: documents with an info section
SharedTrees ==
    {tree \in Trees :
        /\ Len(tree) <= MaxSharedFiles
        /\ \A k \in 1..Len(tree) : tree[k].content.info}

SharedInit ==
    /\ files \in SharedTrees
    /\ apiSpecCache = NoCache
    /\ now = 0
    /\ lastOp = "init"
    /\ lastCall = NoCall
    /\ filledKey = NoKey
    /\ headerCall = NoHeaderCall
    /\ OthersIdle

SharedNext ==
    \/ Load
    \/ Header
    \/ Tick

SharedSpec == SharedInit /\ [][SharedNext]_vars

----------------------------------------------------------------------------
(* loadSimpleApiSpec (src/src/utils/simple-openapi-loader.ts) *)

\* path.join(process.cwd(), 'src', 'content', 'docs', language, 'apispecs',
\* serviceName, version)
BasePath(serviceName, language, version) ==
    <<"src", "content", "docs", language, "apispecs", serviceName, version>>

\* fs.existsSync(basePath): the tree holds something below the directory
ExistsSync(fs, basePath) ==
    \E k \in 1..Len(fs) :
        /\ Len(fs[k].path) > Len(basePath)
        /\ SubSeq(fs[k].path, 1, Len(basePath)) = basePath

\* fs.readdirSync(basePath).filter(file => file.endsWith('.yaml') ||
\* file.endsWith('.yml')), in the order of the listing
ReadDir(fs, basePath) ==
    SelectSeq(fs, LAMBDA f :
        /\ Len(f.path) = Len(basePath) + 1
        /\ SubSeq(f.path, 1, Len(basePath)) = basePath
        /\ IsYamlName(f.path[Len(f.path)]))

\* 'operationId' in operation raises for an operation that is a string: a
\* method of the list holds a truthy value that is not an object
SimpleOperationsRaise(paths) ==
    \E i \in 1..Len(paths) :
        /\ paths[i].pathItem.isObject
        /\ \E j \in 1..Len(HttpMethods) :
            /\ HttpMethods[j] \in DOMAIN paths[i].pathItem.operations
            /\ ~paths[i].pathItem.operations[HttpMethods[j]].isObject

\* the try block of the loop raises for the file: readFileSync, parse or the
\* listing of the operations
SimpleFileRaises(f, unreadable) ==
    \/ f.path[Len(f.path)] \in unreadable
    \/ f.content.parse = "throws"
    \/ /\ f.content.info /\ f.content.openapi
       /\ SimpleOperationsRaise(f.content.paths)

\* for (const fileName of files), from file i on: the first file whose try
\* block returns
RECURSIVE SimpleLoop(_, _, _)
SimpleLoop(entries, i, unreadable) ==
    IF i > Len(entries) THEN [found |-> FALSE, spec |-> NoDocument, filePath |-> <<>>]
    ELSE LET f == entries[i]
         IN  IF SimpleFileRaises(f, unreadable) THEN SimpleLoop(entries, i + 1, unreadable)
             ELSE IF ~f.content.info \/ ~f.content.openapi
             THEN SimpleLoop(entries, i + 1, unreadable)
             ELSE [found |-> TRUE, spec |-> f.content, filePath |-> f.path]

\* loadSimpleApiSpec(serviceName, language, version); unreadable: the file
\* names readFileSync raises for; found FALSE is the null it returns
loadSimpleApiSpec(fs, serviceName, language, version, unreadable) ==
    LET basePath == BasePath(serviceName, language, version)
    IN  IF ~ExistsSync(fs, basePath)
        THEN [found |-> FALSE, spec |-> NoDocument, filePath |-> <<>>]
        ELSE SimpleLoop(ReadDir(fs, basePath), 1, unreadable)

----------------------------------------------------------------------------
(* The spec endpoints (src/src/pages/apispecs/[spec].json.ts) *)

\* the answer of an endpoint: the status and, with 200, the parsed document
\* that is serialized into the body
Response(specId, language, version, status, served, unreadable) ==
    [made |-> TRUE, specId |-> specId, language |-> language, version |-> version,
     status |-> status, document |-> served, unreadable |-> unreadable]

\* specs.find(spec => spec.id === specId) || null, as the sequence of the
\* specs with the id
FindById(specs, specId) == SelectSeq(specs, LAMBDA spec : spec.id = specId)

\* GET of the JSON endpoint: getApiSpecById(spec, language, version), 404
\* without a spec, 200 with apiSpec.spec, 500 from the catch
JsonGET(specId, language, version) ==
    /\ LoadStep(language, version, FALSE, FALSE)
    /\ LET apiSpec == FindById(lastCall'.result, specId)
       IN  endpointCall' =
               [endpointCall EXCEPT !.json =
                   IF lastCall'.raised
                   THEN Response(specId, language, version, 500, NoDocument, {})
                   ELSE IF apiSpec = <<>>
                   THEN Response(specId, language, version, 404, NoDocument, {})
                   ELSE Response(specId, language, version, 200, apiSpec[1].spec, {})]
    /\ UNCHANGED <<files, now, versionCache, versionsCall, document, extracted,
                   exampleInput, examples, authVars, processVars>>

\* GET of the YAML endpoint: loadSimpleApiSpec(specId, language, version), 404
\* without a spec, 200 with stringify(apiSpec.spec)
YamlGET(specId, language, version, unreadable) ==
    /\ LET apiSpec == loadSimpleApiSpec(files, specId, language, version, unreadable)
       IN  endpointCall' =
               [endpointCall EXCEPT !.yaml =
                   IF ~apiSpec.found
                   THEN Response(specId, language, version, 404, NoDocument, unreadable)
                   ELSE Response(specId, language, version, 200, apiSpec.spec, unreadable)]
    /\ lastCall' = NoCall
    /\ headerCall' = NoHeaderCall
    /\ UNCHANGED <<files, apiSpecCache, now, lastOp, filledKey, versionCache, versionsCall,
                   document, extracted, exampleInput, examples, authVars, processVars>>

(* The content trees of the endpoints *)

MaxEndpointFiles == 2

\* a document whose get is a string
StringOperation ==
    << [path |-> "/users",
        pathItem |-> [isObject |-> TRUE,
                      operations |-> [get |-> [isObject |-> FALSE, operationId |-> "",
                                               summary |-> "", tags |-> NoTags]]]] >>

\* what yaml.parse makes of a file's text: a text that does not parse, a
\* document with info and openapi, one without openapi, one without info, one
\* whose info.version is 2.0.0, and one whose get is a string
EndpointContents ==
    { [parse |-> "throws", info |-> FALSE, infoVersion |-> "", versionIsString |-> TRUE,
       paths |-> <<>>, openapi |-> FALSE],
      [parse |-> "ok", info |-> TRUE, infoVersion |-> "", versionIsString |-> TRUE,
       paths |-> <<>>, openapi |-> TRUE],
      [parse |-> "ok", info |-> TRUE, infoVersion |-> "", versionIsString |-> TRUE,
       paths |-> <<>>, openapi |-> FALSE],
      [parse |-> "ok", info |-> FALSE, infoVersion |-> "", versionIsString |-> TRUE,
       paths |-> <<>>, openapi |-> TRUE],
      [parse |-> "ok", info |-> TRUE, infoVersion |-> "2.0.0", versionIsString |-> TRUE,
       paths |-> <<>>, openapi |-> TRUE],
      [parse |-> "ok", info |-> TRUE, infoVersion |-> "", versionIsString |-> TRUE,
       paths |-> StringOperation, openapi |-> TRUE] }

\* the paths a content tree may hold, in the order of the glob and of the
\* directory listing
EndpointCandidatePaths ==
    << <<"src", "content", "docs", "en", "apispecs", "payment-api", "v1", "a.yaml">>,
       <<"src", "content", "docs", "en", "apispecs", "payment-api", "v1", "b.yml">>,
       <<"src", "content", "docs", "en", "apispecs", "payment-api", "v2", "a.yaml">> >>

EndpointServices == {"payment-api"}
EndpointLanguages == {"en"}

\* the file names readFileSync may raise for
Unreadable == {{}, {"a.yaml"}}

EndpointTreeOf(P, c) ==
    LET idx == Ascending(P)
    IN  [k \in 1..Len(idx) |-> [path |-> EndpointCandidatePaths[idx[k]],
                                content |-> c[idx[k]]]]

EndpointTrees ==
    UNION { {EndpointTreeOf(P, c) : c \in [P -> EndpointContents]} :
            P \in {Q \in SUBSET (1..Len(EndpointCandidatePaths)) :
                       Cardinality(Q) <= MaxEndpointFiles} }

EndpointsInit ==
    /\ files \in EndpointTrees
    /\ apiSpecCache = NoCache
    /\ now = 0
    /\ lastOp = "init"
    /\ lastCall = NoCall
    /\ filledKey = NoKey
    /\ headerCall = NoHeaderCall
    /\ OthersIdle

JsonRequest ==
    \E specId \in EndpointServices, language \in EndpointLanguages, version \in Versions :
        JsonGET(specId, language, version)

YamlRequest ==
    \E specId \in EndpointServices, language \in EndpointLanguages, version \in Versions :
        \E unreadable \in Unreadable :
            YamlGET(specId, language, version, unreadable)

EndpointsNext ==
    \/ JsonRequest
    \/ YamlRequest
    \/ Tick

EndpointsSpec == EndpointsInit /\ [][EndpointsNext]_vars

----------------------------------------------------------------------------
(* AuthConfigManager: the visibility rules (src/src/utils/header.ts) *)

\* the rule a property makes
RuleOf(key, value) ==
    IF StartsWith(key, "visibility.folder.")
    THEN [path |-> ReplaceFirst(key, "visibility.folder.", ""), type |-> "folder",
          rule |-> value]
    ELSE [path |-> ReplaceFirst(key, "visibility.file.", ""), type |-> "file",
          rule |-> value]

\* parseVisibilityRules(properties): properties is Object.entries(properties),
\* the entries in the order of the file
parseVisibilityRules(properties) ==
    LET kept == SelectSeq(properties, LAMBDA e :
                    \/ StartsWith(e.key, "visibility.folder.")
                    \/ StartsWith(e.key, "visibility.file."))
    IN  [i \in 1..Len(kept) |-> RuleOf(kept[i].key, kept[i].value)]

\* loadConfig(): the manager after the call; readThrows: readFileSync raises,
\* the catch returns the default config and leaves the fields alone
loadConfig(manager, properties, readThrows) ==
    IF manager.config THEN manager
    ELSE IF readThrows THEN manager
    ELSE [config |-> TRUE, visibilityRules |-> parseVisibilityRules(properties)]

\* getVisibilityRules(): the manager after the call, whose visibilityRules are
\* the returned rules
getVisibilityRules(manager, properties, readThrows) ==
    IF Len(manager.visibilityRules) = 0
    THEN loadConfig(manager, properties, readThrows)
    ELSE manager

\* MatchLoop with a fault: the first folder rule that matches is kept, the
\* lengths are not compared
RECURSIVE MatchLoop_FirstMatch(_, _, _, _)
MatchLoop_FirstMatch(rules, i, pagePath, matchingRule) ==
    IF i > Len(rules) THEN matchingRule
    ELSE IF rules[i].type = "file" /\ pagePath = rules[i].path THEN rules[i]
    ELSE IF rules[i].type = "folder" /\ StartsWith(pagePath, rules[i].path)
    THEN IF matchingRule = NoRule
         THEN MatchLoop_FirstMatch(rules, i + 1, pagePath, rules[i])
         ELSE MatchLoop_FirstMatch(rules, i + 1, pagePath, matchingRule)
    ELSE MatchLoop_FirstMatch(rules, i + 1, pagePath, matchingRule)

\* for (const rule of rules), from rule i on; NoRule is the undefined
\* matchingRule
RECURSIVE MatchLoop(_, _, _, _)
MatchLoop(rules, i, pagePath, matchingRule) ==
    IF i > Len(rules) THEN matchingRule
    ELSE IF rules[i].type = "file" /\ pagePath = rules[i].path THEN rules[i]
    ELSE IF rules[i].type = "folder" /\ StartsWith(pagePath, rules[i].path)
    THEN IF matchingRule = NoRule \/ Len(rules[i].path) > Len(matchingRule.path)
         THEN MatchLoop(rules, i + 1, pagePath, rules[i])
         ELSE MatchLoop(rules, i + 1, pagePath, matchingRule)
    ELSE MatchLoop(rules, i + 1, pagePath, matchingRule)

\* DefaultRule with a fault: a page without a rule requires a signed-in user
DefaultRule_Authenticated(rules) == "authenticated"

\* rules.find(r => r.path === 'visibility.default')?.rule || 'public'
DefaultRule(rules) ==
    LET found == SelectSeq(rules, LAMBDA r : r.path = "visibility.default")
    IN  IF found # <<>> /\ found[1].rule # "" THEN found[1].rule ELSE "public"

\* the rule the check applies: the matching rule, or the default rule for the
\* page
MatchingRule(rules, pagePath) ==
    LET matchingRule == MatchLoop(rules, 1, pagePath, NoRule)
    IN  IF matchingRule = NoRule
        THEN [path |-> pagePath, type |-> "file", rule |-> DefaultRule(rules)]
        ELSE matchingRule

\* userRoles.includes(requiredRole)
IncludesRole(userRoles, requiredRole) ==
    \E i \in 1..Len(userRoles) : userRoles[i] = requiredRole

\* the result of checkPageVisibility: the switch over matchingRule.rule
CheckResult(rules, pagePath, userRoles) ==
    LET matchingRule == MatchingRule(rules, pagePath)
        result == [made |-> TRUE, pagePath |-> pagePath, userRoles |-> userRoles,
                   rules |-> rules, visible |-> TRUE, requiresAuth |-> FALSE,
                   requiredRole |-> "", rule |-> matchingRule]
    IN  CASE matchingRule.rule = "public" -> result
          [] matchingRule.rule = "authenticated" ->
                [result EXCEPT !.visible = Len(userRoles) > 0, !.requiresAuth = TRUE]
          [] OTHER ->
                IF StartsWith(matchingRule.rule, "role:")
                THEN LET requiredRole == SubSeq(matchingRule.rule, 6, Len(matchingRule.rule))
                     IN  [result EXCEPT !.requiredRole = requiredRole,
                                        !.visible = IncludesRole(userRoles, requiredRole),
                                        !.requiresAuth = TRUE]
                ELSE result

\* checkPageVisibility(pagePath, userRoles): the rules are taken from
\* getVisibilityRules, then loadConfig is called for the debug flag
checkPageVisibility(pagePath, userRoles, readThrows) ==
    LET withRules == getVisibilityRules(authConfigManager, applicationProperties, readThrows)
    IN  /\ authConfigManager' = loadConfig(withRules, applicationProperties, readThrows)
        /\ visibilityCheck' = CheckResult(withRules.visibilityRules, pagePath, userRoles)
        /\ UNCHANGED <<files, apiSpecCache, now, lastOp, lastCall, filledKey, headerCall,
                       versionCache, versionsCall, document, extracted, exampleInput,
                       examples, endpointCall, applicationProperties, processVars>>

(* The properties and the pages of the checks *)

MaxProperties == 2

\* the keys application.properties may hold
PropertyKeys ==
    << "visibility.folder./docs", "visibility.folder./docs/api",
       "visibility.file./docs/api/keys", "visibility.folder./docs/api/keys",
       "visibility.default", "visibility.folder.visibility.default" >>

\* the values of the keys: the three policies and one that is none of them
PropertyValues == {"public", "authenticated", "role:admin", "internal"}

PagePaths == {"/docs/api/keys", "/docs/api/list", "/other"}

UserRoles == {<<>>, <<"user">>, <<"admin">>}

\* the files of at most MaxProperties properties, their keys in the order of
\* PropertyKeys
PropertyFiles ==
    LET orders == {order \in UNION {[1..n -> 1..Len(PropertyKeys)] : n \in 0..MaxProperties} :
                      \A a, b \in 1..Len(order) : a < b => order[a] < order[b]}
    IN  UNION { {[n \in 1..Len(order) |-> [key |-> PropertyKeys[order[n]], value |-> v[n]]] :
                    v \in [1..Len(order) -> PropertyValues]} : order \in orders }

VisibilityInit ==
    /\ files = <<>>
    /\ apiSpecCache = NoCache
    /\ now = 0
    /\ lastOp = "init"
    /\ lastCall = NoCall
    /\ filledKey = NoKey
    /\ headerCall = NoHeaderCall
    /\ versionCache = <<>>
    /\ versionsCall = NoVersionsCall
    /\ document = <<>>
    /\ extracted = NoOperations
    /\ exampleInput = NoInput
    /\ examples = NoExamples
    /\ endpointCall = NoEndpointCall
    /\ applicationProperties \in PropertyFiles
    /\ authConfigManager = NewAuthConfigManager
    /\ visibilityCheck = NoCheck
    /\ ProcessIdle

\* a check; the file is read only while the manager holds no config
CheckPage ==
    \E pagePath \in PagePaths, userRoles \in UserRoles :
        \E readThrows \in (IF authConfigManager.config THEN {FALSE} ELSE BOOLEAN) :
            checkPageVisibility(pagePath, userRoles, readThrows)

VisibilityNext == CheckPage

VisibilitySpec == VisibilityInit /\ [][VisibilityNext]_vars

----------------------------------------------------------------------------
(* What the call of the last step was asked and what it answered *)

Called == lastCall # NoCall

\* the call wrote the cache: it missed and its versioned scan completed
Scanned == Called /\ lastCall.scanned /\ ~lastCall.fellBack

\* file k lies in the versioned layout under (language, version):
\* docs/<language>/apispecs/<service>/<version>/<file>
InLayout(k, language, version) ==
    /\ Len(files[k].path) = 8
    /\ files[k].path[4] = language
    /\ files[k].path[5] = "apispecs"
    /\ files[k].path[7] = version

\* file k parses and has a truthy info
IsValid(k) ==
    files[k].content.parse = "ok" /\ files[k].content.info

\* the entry a completed scan of the call's key stores at the present instant
EntryOfScan ==
    [present |-> TRUE,
     specs |-> ScanVersioned(files, lastCall.language, lastCall.version),
     lastUpdated |-> now]

----------------------------------------------------------------------------
(* C1 *)

\* C1: a second call for the same (language, version) within the time-to-live
\* returns the list the first call returned (the one it stored), and does not
\* scan again, also when a document's info.version differs from its directory.
C1_SecondCallIdentical ==
    (/\ Called
     /\ lastCall.hit
     /\ filledKey = [language |-> lastCall.language, version |-> lastCall.version])
    => /\ lastCall.result = apiSpecCache.specs
       /\ ~lastCall.scanned

(* C2 *)

\* C2: the cache is keyed by (language, version): a call served within the
\* time-to-live after a call for another key returns the specs of its own key.
C2_KeyedByLanguageVersion ==
    (/\ Called
     /\ lastCall.hit
     /\ filledKey # [language |-> lastCall.language, version |-> lastCall.version])
    => lastCall.result = ScanVersioned(files, lastCall.language, lastCall.version)

(* C3 *)

\* C3 as stated: a call is served from the cache exactly when an entry exists
\* and now - timestamp < 300 000 ms; every other call scans again, replaces the
\* entry and refreshes its timestamp.
C3_ExpiryAlwaysReplaces ==
    Called =>
        /\ lastCall.hit <=> (lastCall.entryBefore /\ now - lastCall.stampBefore < TTL_MS)
        /\ ~lastCall.hit => (lastCall.scanned /\ apiSpecCache = EntryOfScan)

\* C3, amended: a call is served from the cache exactly when an entry exists and
\* now - timestamp < 300 000 ms; every other call invokes the versioned scan
\* again and, when that scan completes, replaces the entry and refreshes its
\* timestamp; when the versioned glob raises, the call returns the legacy
\* fallback and the entry and its timestamp stay as they were.
C3_Expiry ==
    Called =>
        /\ lastCall.hit <=> (lastCall.entryBefore /\ now - lastCall.stampBefore < TTL_MS)
        /\ lastCall.hit => ~lastCall.scanned
        /\ ~lastCall.hit =>
            /\ lastCall.scanned
            /\ ~lastCall.fellBack => apiSpecCache = EntryOfScan
            /\ lastCall.fellBack =>
                /\ apiSpecCache.present = lastCall.entryBefore
                /\ apiSpecCache.lastUpdated = lastCall.stampBefore

\* a call made when the entry's age is exactly the time-to-live has scanned
\* again and stored its list with a new timestamp
C3_Witness ==
    /\ Scanned
    /\ lastCall.entryBefore
    /\ now - lastCall.stampBefore = TTL_MS
    /\ apiSpecCache.lastUpdated = now
    /\ lastCall.result # <<>>

(* C4 *)

\* C4: the list a call returns holds one spec per service directory: the ids
\* in it are pairwise distinct.
C4_OneSpecPerService ==
    (Called /\ ~lastCall.fellBack) =>
        \A i, j \in 1..Len(lastCall.result) :
            lastCall.result[i].id = lastCall.result[j].id => i = j

(* C5 *)

\* C5: after clearApiSpecCache the cache holds no entry at all, however much
\* time passes, and the next call, for any key and at any instant, finds no
\* entry and invokes the scan again.
C5_ClearResetsAll ==
    /\ lastOp = "clear" => apiSpecCache = NoCache
    /\ (Called /\ lastCall.afterOp = "clear") =>
        /\ ~lastCall.entryBefore
        /\ ~lastCall.hit
        /\ lastCall.scanned

\* the first call after a clear, made at instant 0, before any time has passed,
\* scanned again and returned specs
C5_Witness ==
    /\ Scanned
    /\ lastCall.afterOp = "clear"
    /\ now = 0
    /\ lastCall.result # <<>>

(* C6 *)

\* C6: every spec a scan for (language, version) returns comes from a file
\* whose language segment is the language and whose version directory, the
\* segment directly above the file, is the version.
C6_OnlyRequestedKey ==
    Scanned =>
        \A i \in 1..Len(lastCall.result) :
            LET path == lastCall.result[i].sourcePath
            IN  /\ path[4] = lastCall.language
                /\ path[Len(path) - 1] = lastCall.version

(* C7 *)

\* C7: a file that does not parse, or parses without info, is skipped and does
\* not end the scan: the result holds a spec for every valid file of the
\* requested (language, version), wherever the invalid files stand, and no spec
\* built from an invalid file.
C7_InvalidFilesSkipped ==
    Scanned =>
        /\ \A k \in 1..Len(files) :
            (InLayout(k, lastCall.language, lastCall.version) /\ IsValid(k)) =>
                \E i \in 1..Len(lastCall.result) :
                    /\ lastCall.result[i].sourcePath = files[k].path
                    /\ lastCall.result[i].spec = files[k].content
        /\ \A i \in 1..Len(lastCall.result) :
            /\ lastCall.result[i].spec.parse = "ok"
            /\ lastCall.result[i].spec.info

\* a scan passed an invalid file of the requested key and returned the spec of
\* a valid file that stands after it
C7_Witness ==
    /\ Scanned
    /\ \E k1, k2 \in 1..Len(files) :
        /\ k1 < k2
        /\ InLayout(k1, lastCall.language, lastCall.version) /\ ~IsValid(k1)
        /\ InLayout(k2, lastCall.language, lastCall.version) /\ IsValid(k2)
        /\ \E i \in 1..Len(lastCall.result) : lastCall.result[i].sourcePath = files[k2].path

(* C8 *)

\* C8: when the versioned layout yields no file for the requested (language,
\* version), the call returns the flat-layout specs of the language.
C8_FallbackOnZeroFiles ==
    (/\ Scanned
     /\ LanguageVersionFiles(VersionedGlob(files), lastCall.language, lastCall.version) = <<>>)
    => lastCall.result = loadLegacyApiSpecs(files, lastCall.language, FALSE)

(* C9 *)

\* C9: the cache never holds a spec built from a flat-layout file, and a call
\* that takes the fallback path leaves the cache, entry and timestamp, as it was.
C9_FallbackNotCached ==
    [][/\ \A i \in 1..Len(apiSpecCache'.specs) :
            VersionedGlobMatches(apiSpecCache'.specs[i].sourcePath)
       /\ lastCall'.fellBack => apiSpecCache' = apiSpecCache]_vars

\* a call took the fallback path and returned flat-layout specs while the
\* cache held an entry with specs
C9_Witness ==
    /\ Called
    /\ lastCall.fellBack
    /\ lastCall.result # <<>>
    /\ apiSpecCache.present
    /\ apiSpecCache.specs # <<>>

(* C10 *)

\* C10: requests that race in a cache-miss window (the one that scans and those
\* answered at the very instant its entry was written) each return what a
\* request alone would return for its own key, the cache holds what the scanning
\* request stored, and no request scans more than once.
C10_RaceBenign ==
    (/\ Called
     /\ ~lastCall.fellBack
     /\ apiSpecCache.present
     /\ apiSpecCache.lastUpdated = now)
    => /\ lastCall.result = ScanVersioned(files, lastCall.language, lastCall.version)
       /\ apiSpecCache.specs = ScanVersioned(files, filledKey.language, filledKey.version)

----------------------------------------------------------------------------
(* The paths of the files the specs are built from *)

\* the path has the shape .../apispecs/<service>/<version>/<fileName>
HasSpecShape(path) ==
    \E k \in 1..Len(path) : path[k] = "apispecs" /\ Len(path) = k + 3

\* the path has the shape .../apispecs/<fileName>
HasFlatShape(path) ==
    \E k \in 1..Len(path) : path[k] = "apispecs" /\ Len(path) = k + 1

\* the last step made a call of getApiSpecsForHeader
HeaderCalled == headerCall.made

(* C11 *)

\* C11 as stated: a file is turned into a spec only if its path has the shape
\* .../apispecs/<service>/<version>/<fileName>: every entry getApiSpecsForHeader
\* returns, and every spec loadAllApiSpecs returns, was built from such a file.
C11_OnlyVersionedShape ==
    /\ HeaderCalled =>
        \A n \in 1..Len(headerCall.result) : HasSpecShape(headerCall.result[n].sourcePath)
    /\ \A language \in Languages, version \in Versions :
        LET specs == ScanVersioned(files, language, version)
        IN  \A n \in 1..Len(specs) : HasSpecShape(specs[n].sourcePath)

\* C11, amended: the versioned scans of getApiSpecsForHeader and loadAllApiSpecs
\* turn a file into a spec only if its path has the shape
\* .../apispecs/<service>/<version>/<fileName>, a path with another number of
\* segments after apispecs is left out of their results, and the call completes;
\* the legacy fallback (getApiSpecsForHeader when its versioned scan yields no
\* entry, loadAllApiSpecs when its glob raises) turns the flat files
\* .../apispecs/<fileName>, and only those, into specs.
C11_PathGrammar ==
    /\ (HeaderCalled /\ ~headerCall.legacy) =>
        \A n \in 1..Len(headerCall.result) : HasSpecShape(headerCall.result[n].sourcePath)
    /\ (HeaderCalled /\ headerCall.legacy) =>
        \A n \in 1..Len(headerCall.result) : HasFlatShape(headerCall.result[n].sourcePath)
    /\ \A language \in Languages, version \in Versions :
        LET specs == ScanVersioned(files, language, version)
            legacy == loadLegacyApiSpecs(files, language, FALSE)
        IN  /\ \A n \in 1..Len(specs) : HasSpecShape(specs[n].sourcePath)
            /\ \A n \in 1..Len(legacy) : HasFlatShape(legacy[n].sourcePath)

\* a call for (en, v2) on a tree that holds a valid file one level above the
\* versioned layout, or one level below it, whose path passes the language and
\* version filter: the call returned the entry of the file of the versioned
\* layout and no other
C11_Witness ==
    /\ HeaderCalled
    /\ ~headerCall.legacy
    /\ Len(headerCall.result) = 1
    /\ HasSpecShape(headerCall.result[1].sourcePath)
    /\ \E k \in 1..Len(files) :
        /\ ~HasSpecShape(files[k].path)
        /\ ~HasFlatShape(files[k].path)
        /\ IncludesDirs(files[k].path, <<"docs", headerCall.language, "apispecs">>)
        /\ IncludesDirs(files[k].path, <<headerCall.version>>)
        /\ files[k].content.parse = "ok" /\ files[k].content.info

(* C12 *)

\* file k is a flat-layout file of the language: docs/<language>/apispecs/<file>
InFlatLayout(k, language) ==
    /\ Len(files[k].path) = 6
    /\ files[k].path[4] = language
    /\ files[k].path[5] = "apispecs"

\* the list holds the spec built from file k
HoldsSpecOf(specs, k) ==
    \E n \in 1..Len(specs) :
        specs[n].sourcePath = files[k].path /\ specs[n].spec = files[k].content

IdsOf(specs) == {specs[n].id : n \in 1..Len(specs)}

\* C13: when a scan of loadAllApiSpecs returns specs for a (language, version),
\* the service ids of the entries getApiSpecsForHeader returns for the same key
\* are the service ids of those specs, so every service directory with a valid
\* file has a header entry.
C13_HeaderDelegates ==
    (/\ HeaderCalled
     /\ ~headerCall.caught
     /\ ScanVersioned(files, headerCall.language, headerCall.version) # <<>>)
    => IdsOf(headerCall.result)
           = IdsOf(ScanVersioned(files, headerCall.language, headerCall.version))

(* C14 *)

\* the content of the file at the path
ContentAt(path) ==
    LET k == CHOOSE k \in 1..Len(files) : files[k].path = path
    IN  files[k].content

\* the header operations are the first min(8, n) of the n operations, in
\* their order
IsTruncationOf(headerOperations, sorted) ==
    /\ Len(headerOperations)
           = (IF Len(sorted) < HeaderOperationLimit THEN Len(sorted) ELSE HeaderOperationLimit)
    /\ \A j \in 1..Len(headerOperations) :
        /\ headerOperations[j].operationId = sorted[j].operationId
        /\ headerOperations[j].summary = sorted[j].summary

\* C14: getApiSpecsForHeader returns at most one entry per service id, and the
\* operations of each entry are the first min(8, n) operations of the spec's
\* list in its summary-ascending order, on the versioned and on the legacy path.
C14_OneEntryEightOperations ==
    HeaderCalled =>
        /\ \A m, n \in 1..Len(headerCall.result) :
            headerCall.result[m].id = headerCall.result[n].id => m = n
        /\ \A n \in 1..Len(headerCall.result) :
            IsTruncationOf(headerCall.result[n].operations,
                extractOperationsFromSpec(ContentAt(headerCall.result[n].sourcePath).paths))

(* C15 *)

\* file k is a valid document of the version directory of the service in the
\* language: docs/<language>/apispecs/<serviceName>/<version>/<file>
IsDocumentOf(k, serviceName, language, version) ==
    /\ Len(files[k].path) = 8
    /\ files[k].path[4] = language
    /\ files[k].path[5] = "apispecs"
    /\ files[k].path[6] = serviceName
    /\ files[k].path[7] = version
    /\ IsValid(k)

\* the v<N> version directories of the service that hold a valid document
ObservedVersions(serviceName, language) ==
    {files[k].path[7] : k \in {j \in 1..Len(files) :
        /\ IsDocumentOf(j, serviceName, language, files[j].path[7])
        /\ IsVersionDir(files[j].path[7])}}

\* the first valid document of the version directory
FirstDocument(serviceName, language, version) ==
    LET k == CHOOSE k \in 1..Len(files) :
                 /\ IsDocumentOf(k, serviceName, language, version)
                 /\ \A j \in 1..(k - 1) : ~IsDocumentOf(j, serviceName, language, version)
    IN  files[k].content

\* the last step made a call of getApiVersions that listed the versions from
\* the files
VersionsListed == versionsCall.made /\ ~versionsCall.hit /\ ~versionsCall.caught

\* C15: getApiVersions returns the distinct v<N> version directories observed
\* for the service, sorted descending by N, the highest labelled and badged
\* Latest and, when there is more than one, the lowest badged Legacy, however
\* many files a version directory holds; a version whose document declares
\* x-version-status has that value as its badge. (Of a version whose document
\* has no x-version-status and an info.version with beta or alpha in it, the
\* badge is left open here.)
C15_VersionsListed ==
    VersionsListed =>
        LET result == versionsCall.result
            serviceName == versionsCall.serviceName
            language == versionsCall.language
        IN  /\ {result[n].version : n \in 1..Len(result)}
                   = ObservedVersions(serviceName, language)
            /\ \A m, n \in 1..Len(result) :
                m < n => /\ result[m].version # result[n].version
                         /\ VersionNumber(result[m].version) >= VersionNumber(result[n].version)
            /\ \A n \in 1..Len(result) :
                LET first == FirstDocument(serviceName, language, result[n].version)
                IN  /\ result[n].label = (IF n = 1 THEN result[n].version \o " (Latest)"
                                          ELSE result[n].version)
                    /\ first.xVersionStatus # "" => result[n].badge = first.xVersionStatus
                    /\ DocumentBadge(first) = "" =>
                        result[n].badge = (IF n = 1 THEN "Latest"
                                           ELSE IF n = Len(result) THEN "Legacy"
                                           ELSE "")

----------------------------------------------------------------------------
(* The operations extracted from a document *)

\* the seven methods and their upper-case names
MethodNames ==
    [get |-> "GET", post |-> "POST", put |-> "PUT", delete |-> "DELETE",
     patch |-> "PATCH", options |-> "OPTIONS", head |-> "HEAD"]

\* the place of a method among the seven
MethodPlace ==
    [get |-> 1, post |-> 2, put |-> 3, delete |-> 4, patch |-> 5, options |-> 6, head |-> 7]

\* the (path entry, method) pairs of the document that hold an operation: the
\* path item is an object and so is what it has under the method
OperationsPresent ==
    {pm \in (1..Len(document)) \X DOMAIN MethodNames :
        /\ document[pm[1]].pathItem.isObject
        /\ pm[2] \in DOMAIN document[pm[1]].pathItem.operations
        /\ document[pm[1]].pathItem.operations[pm[2]].isObject}

\* what the document declares for the operation of the pair
Declared(pm) == document[pm[1]].pathItem.operations[pm[2]]

\* the extracted operations of the pair
ExtractedFor(pm) ==
    {n \in 1..Len(extracted.list) :
        /\ extracted.list[n].path = document[pm[1]].path
        /\ extracted.list[n].method = MethodNames[pm[2]]}

\* the extraction has been made and has returned
Extracted == extracted.done /\ ~extracted.raised

(* C16 *)

\* C16: the extraction yields one operation per (path, method) for each of the
\* seven methods present on a path item, with the method in upper case, the
\* summary "<METHOD> <path>" when the document declares none and no tags when it
\* declares none; the list is ascending by summary, and operations of equal
\* summaries stand in the order of their discovery (paths in the document's
\* order, methods in the order of the seven).
C16_OperationsExtracted ==
    Extracted =>
        /\ Len(extracted.list) = Cardinality(OperationsPresent)
        /\ \A pm \in OperationsPresent :
            \E n \in ExtractedFor(pm) :
                /\ extracted.list[n].summary =
                       (IF Declared(pm).summary # "" THEN Declared(pm).summary
                        ELSE MethodNames[pm[2]] \o " " \o document[pm[1]].path)
                /\ extracted.list[n].tags =
                       (IF Declared(pm).tags.declared THEN Declared(pm).tags.list ELSE <<>>)
        /\ \A pm, qn \in OperationsPresent :
            \A a \in ExtractedFor(pm), b \in ExtractedFor(qn) :
                (extracted.list[a].discovered < extracted.list[b].discovered)
                <=> \/ pm[1] < qn[1]
                    \/ pm[1] = qn[1] /\ MethodPlace[pm[2]] < MethodPlace[qn[2]]
        /\ \A a, b \in 1..Len(extracted.list) :
            a < b =>
                /\ LocaleCompare(extracted.list[a].summary, extracted.list[b].summary) <= 0
                /\ extracted.list[a].summary = extracted.list[b].summary =>
                    extracted.list[a].discovered < extracted.list[b].discovered

\* an extraction returned two operations of equal summaries, in the order of
\* their discovery, after an operation of another path whose summary is the
\* default and which was discovered after them
C16_Witness ==
    /\ Extracted
    /\ \E a, b, c \in 1..Len(extracted.list) :
        /\ extracted.list[a].summary = "DELETE " \o extracted.list[a].path
        /\ a < b /\ b < c
        /\ extracted.list[b].summary = extracted.list[c].summary
        /\ extracted.list[b].discovered < extracted.list[c].discovered
        /\ extracted.list[c].discovered < extracted.list[a].discovered

(* C17 *)

\* the maximal runs of alphanumeric characters of s from position i on, the
\* braces left out of account; current is the run being read
RECURSIVE AlphanumericRuns(_, _, _)
AlphanumericRuns(s, i, current) ==
    IF i > Len(s) THEN (IF current = "" THEN <<>> ELSE <<current>>)
    ELSE LET c == SubSeq(s, i, i)
         IN  IF c \in {"{", "}"} THEN AlphanumericRuns(s, i + 1, current)
             ELSE IF IsAlphanumeric(c) THEN AlphanumericRuns(s, i + 1, current \o c)
             ELSE IF current = "" THEN AlphanumericRuns(s, i + 1, "")
             ELSE <<current>> \o AlphanumericRuns(s, i + 1, "")

\* the strings of the sequence with an underscore between them
RECURSIVE JoinWithUnderscore(_)
JoinWithUnderscore(runs) ==
    IF runs = <<>> THEN ""
    ELSE IF Len(runs) = 1 THEN runs[1]
    ELSE runs[1] \o "_" \o JoinWithUnderscore(Tail(runs))

\* the path without braces, every run of non-alphanumeric characters replaced
\* by one underscore, no underscore at its start or end
Sanitized(path) == JoinWithUnderscore(AlphanumericRuns(path, 1, ""))

\* C17: an operation that declares no operationId has the id
\* lower(method) + "_" + sanitize(path), where sanitize removes the braces,
\* replaces every run of non-alphanumeric characters by one underscore and
\* strips the underscores at the start and the end (get and /users/{id}/orders
\* give get_users_id_orders); a declared operationId is used as it is.
C17_OperationIds ==
    Extracted =>
        \A pm \in OperationsPresent :
            \E n \in ExtractedFor(pm) :
                /\ Declared(pm).operationId # "" =>
                    extracted.list[n].operationId = Declared(pm).operationId
                /\ Declared(pm).operationId = "" =>
                    /\ extracted.list[n].operationId
                           = pm[2] \o "_" \o Sanitized(document[pm[1]].path)
                    /\ (pm[2] = "get" /\ document[pm[1]].path = "/users/{id}/orders") =>
                        extracted.list[n].operationId = "get_users_id_orders"

\* an extraction gave the get of /users/{id}/orders the id get_users_id_orders
\* and another operation the id its document declares
C17_Witness ==
    /\ Extracted
    /\ \E a, b \in 1..Len(extracted.list) :
        /\ extracted.list[a].operationId = "get_users_id_orders"
        /\ extracted.list[a].path = "/users/{id}/orders"
        /\ extracted.list[b].operationId = "listUsers"

(* C18 *)

\* C18: the operationId values of the operations extracted from a document are
\* pairwise distinct, whatever the document.
C18_OperationIdsDistinct ==
    Extracted =>
        \A a, b \in 1..Len(extracted.list) :
            extracted.list[a].operationId = extracted.list[b].operationId => a = b

----------------------------------------------------------------------------
(* The examples generated for a schema *)

\* the segments a, b, c of a reference #/a/b/c
Segments(ref) == Split(SubSeq(ref, 3, Len(ref)), 1, "")

\* the root document has every segment from the i-th on, one below the other
RECURSIVE Present(_, _, _)
Present(node, segments, i) ==
    \/ i > Len(segments)
    \/ /\ Has(node, segments[i])
       /\ Present(Get(node, segments[i]), segments, i + 1)

\* rootDocument.a.b.c
RECURSIVE Target(_, _, _)
Target(node, segments, i) ==
    IF i > Len(segments) THEN node ELSE Target(Get(node, segments[i]), segments, i + 1)

\* the schema is a reference of shape #/a/b/c and declares no example
IsReference(schema) ==
    /\ Has(schema, "$ref")
    /\ Get(schema, "$ref").kind = "string"
    /\ StartsWith(Get(schema, "$ref").string, "#/")
    /\ ~Has(schema, "example")

\* what the generator of the name makes of the schema
Generated(generator, schema, spec) ==
    CASE generator = "dynamic" -> generateExampleFromSchema(schema, spec)
      [] generator = "openapi" -> generateExample(schema, spec)
      [] generator = "header" -> OpenAPICodeExtractor_generateExampleFromSchema(schema, spec)

(* C19 *)

\* C19: for a schema whose $ref of shape #/a/b/c has a segment that the root
\* document lacks, each of the three example generators returns null and does
\* not raise.
C19_MissingReferenceGivesNull ==
    LET schema == exampleInput.schema
    IN  (/\ IsReference(schema)
         /\ ~Present(exampleInput.spec, Segments(Get(schema, "$ref").string), 1)) =>
            \A generator \in examples.done :
                /\ ~examples[generator].raised
                /\ examples[generator].value = Null

(* C20 *)

\* the answer of the generator follows the precedence for the schema
FollowsPrecedence(generator, schema, spec, answer) ==
    LET type == Get(schema, "type")
        format == Get(schema, "format")
        segments == Segments(Get(schema, "$ref").string)
    IN  /\ ~answer.raised
        /\ Has(schema, "example") => answer.value = Get(schema, "example")
        /\ (IsReference(schema) /\ Present(spec, segments, 1)) =>
                answer = Generated(generator, Target(spec, segments, 1), spec)
        /\ (~Has(schema, "example") /\ ~Has(schema, "$ref")) =>
            /\ (type = Str("string") /\ format = Str("email")) =>
                    answer.value = Str("user@example.com")
            /\ (/\ type = Str("string")
                /\ format \in {Str("email"), Str("date-time"), Str("date")}
                /\ Has(schema, "enum")) =>
                    answer.value # First(Get(schema, "enum"))
            /\ type \in {Str("number"), Str("integer")} =>
                    answer.value = (IF Has(schema, "default") THEN Get(schema, "default")
                                    ELSE Num(0))
            /\ type = Str("boolean") =>
                    answer.value = (IF Has(schema, "default") THEN Get(schema, "default")
                                    ELSE Bool(FALSE))
            /\ (type = Str("array") /\ Has(schema, "items")) =>
                    answer.value
                        = Arr(<<Generated(generator, Get(schema, "items"), spec).value>>)
            /\ (type = Str("array") /\ ~Has(schema, "items")) => answer.value = Arr(<<>>)
            /\ type \notin {Str("string"), Str("number"), Str("integer"), Str("boolean"),
                            Str("array"), Str("object")} =>
                    answer.value = Null

\* C20: example synthesis follows the precedence, first match wins: an explicit
\* example is returned verbatim, also on a schema with a $ref; otherwise a $ref
\* is resolved and recursed into; otherwise the type decides: for strings the
\* formats email, date-time and date come before enum, numbers and booleans
\* return a declared default (0 and false too) and else 0 or false, arrays
\* return the one-element list of the items' example (empty without items),
\* and any other or absent type returns null.
C20_ExamplePrecedence ==
    \A generator \in examples.done \cap {"dynamic", "openapi"} :
        FollowsPrecedence(generator, exampleInput.schema, exampleInput.spec,
                          examples[generator])

(* C21 *)

\* the names of the members of an object value, in order
KeysOf(object) == [i \in 1..Len(object.elements) |-> object.elements[i].name]

\* the schema is an object schema that the type-directed branch handles
IsObjectSchema(schema) ==
    /\ Get(schema, "type") = Str("object")
    /\ ~Has(schema, "example")
    /\ ~Has(schema, "$ref")

\* C21: for an object schema the generated example has exactly one key per
\* declared properties entry, whether or not the schema lists required
\* properties, in the generator of dynamic-openapi.ts and in the extractor of
\* header.ts alike; an object without properties gives the empty mapping.
C21_OneKeyPerProperty ==
    LET schema == exampleInput.schema
    IN  IsObjectSchema(schema) =>
            \A generator \in examples.done \cap {"dynamic", "header"} :
                ~examples[generator].raised =>
                    /\ examples[generator].value.kind = "object"
                    /\ KeysOf(examples[generator].value)
                           = KeysOf(Obj(Entries(Get(schema, "properties"))))

(* C22 *)

\* both endpoints have answered a request for the same service, language and
\* version, and no file was unreadable
SameRequest ==
    /\ endpointCall.json.made
    /\ endpointCall.yaml.made
    /\ endpointCall.yaml.unreadable = {}
    /\ endpointCall.json.specId = endpointCall.yaml.specId
    /\ endpointCall.json.language = endpointCall.yaml.language
    /\ endpointCall.json.version = endpointCall.yaml.version

\* C22: for the same service, language and version the JSON endpoint and the
\* YAML endpoint serve the same parsed document: both answer 200 with the same
\* document or both answer not-found, whatever the content tree and the
\* requests made before.
C22_EndpointsAgree ==
    SameRequest =>
        /\ endpointCall.json.status = endpointCall.yaml.status
        /\ endpointCall.json.status \in {200, 404}
        /\ endpointCall.json.document = endpointCall.yaml.document

----------------------------------------------------------------------------
(* The rule a visibility check applied *)

\* the rule matches the page: a file rule by equality, a folder rule as a prefix
Matches(rule, pagePath) ==
    \/ rule.type = "file" /\ pagePath = rule.path
    \/ rule.type = "folder" /\ StartsWith(pagePath, rule.path)

\* the places of the rules of the check that match its page
MatchingPlaces == {i \in 1..Len(visibilityCheck.rules) :
                      Matches(visibilityCheck.rules[i], visibilityCheck.pagePath)}

\* the rules in every order
Reorderings(rules) ==
    {[n \in 1..Len(rules) |-> rules[order[n]]] :
        order \in {o \in [1..Len(rules) -> 1..Len(rules)] :
                      \A a, b \in 1..Len(rules) : o[a] = o[b] => a = b}}

(* C23 *)

\* C23: checkPageVisibility applies the matching rule with the longest path,
\* whatever the order the rules were declared in; public is visible without
\* authentication, authenticated is visible exactly when the user has a role,
\* and role:<name> is visible exactly when the user's roles include the name.
C23_LongestPrefixWins ==
    visibilityCheck.made =>
        LET check == visibilityCheck
        IN  /\ MatchingPlaces # {} =>
                \E i \in MatchingPlaces :
                    /\ check.rule = check.rules[i]
                    /\ \A j \in MatchingPlaces :
                           Len(check.rules[j].path) <= Len(check.rules[i].path)
            /\ \A reordered \in Reorderings(check.rules) :
                   CheckResult(reordered, check.pagePath, check.userRoles)
                       = [check EXCEPT !.rules = reordered]
            /\ check.rule.rule = "public" => check.visible /\ ~check.requiresAuth
            /\ check.rule.rule = "authenticated" => (check.visible <=> Len(check.userRoles) > 0)
            /\ check.rule.rule = "role:admin" =>
                   (check.visible <=> IncludesRole(check.userRoles, "admin"))

\* a check of a page that two rules match, the shorter one declared first, and
\* that applied the longer one, a role rule that the user's roles satisfy
C23_Witness ==
    /\ visibilityCheck.made
    /\ \E i, j \in MatchingPlaces :
        /\ i < j
        /\ Len(visibilityCheck.rules[i].path) < Len(visibilityCheck.rules[j].path)
        /\ visibilityCheck.rule = visibilityCheck.rules[j]
    /\ visibilityCheck.rule.rule = "role:admin"
    /\ visibilityCheck.visible

(* C24 *)

\* the references written anywhere in the value
RECURSIVE RefsIn(_)
RefsIn(value) ==
    (IF Has(value, "$ref") /\ Get(value, "$ref").kind = "string"
     THEN {Get(value, "$ref").string} ELSE {})
    \cup UNION {RefsIn(value.elements[i].value) : i \in 1..Len(value.elements)}

\* the references written in what the references name in the root document
RefsBehind(refs, spec) ==
    UNION {RefsIn(Target(spec, Segments(ref), 1)) : ref \in refs}

\* the references that can be reached from the references
RECURSIVE RefsFrom(_, _)
RefsFrom(refs, spec) ==
    LET more == refs \cup RefsBehind(refs, spec)
    IN  IF more = refs THEN refs ELSE RefsFrom(more, spec)

\* no reference that can be reached from the schema leads back to itself
Acyclic(schema, spec) ==
    \A ref \in RefsFrom(RefsIn(schema), spec) : ref \notin RefsFrom(RefsBehind({ref}, spec), spec)

\* the generation has made its last call
GenerationDone == generation.started /\ generation.pending = <<>>

\* C24: a generation that has been started for a schema and a root document
\* whose reference chains hold no cycle makes its last call
C24_AcyclicTerminates ==
    (generation.started /\ Acyclic(exampleInput.schema, exampleInput.spec)) ~> GenerationDone

\* a generation has ended after it followed a reference to a reference
C24_Witness ==
    /\ GenerationDone
    /\ exampleInput.spec \in ChainedRootDocuments
    /\ Acyclic(exampleInput.schema, exampleInput.spec)
    /\ RefsBehind(RefsIn(exampleInput.schema), exampleInput.spec) # {}
    /\ generation.calls >= 3

(* C25 *)

\* the call is past a cache miss: at the glob or at the cache write
PastMiss(c) == loaderCalls.call[c].pc \in {"scan", "write"}

\* the call is inside loadAllApiSpecs, where it reads or writes the cache
InsideLoad(c) == loaderCalls.call[c].pc # "idle"

\* C25: two calls of loadAllApiSpecs never interleave: while one call is past
\* a cache miss, no other call is inside the function
C25_NoInterleaving ==
    \A a, b \in Callers : (a # b /\ PastMiss(a)) => ~InsideLoad(b)

\* a call has found an expired entry and is about to replace it
C25_Witness ==
    \E a \in Callers :
        /\ loaderCalls.call[a].pc = "write"
        /\ apiSpecCache.present
        /\ ~CacheFresh(apiSpecCache, now)

(* C26 *)

\* the cache holds an empty list that the time-to-live still covers
EmptyEntryInForce ==
    /\ apiSpecCache.present
    /\ apiSpecCache.specs = <<>>
    /\ now - apiSpecCache.lastUpdated < TTL_MS

VersionsStep == versionsCall'.made /\ now' = now /\ files' = files

\* the cacheKey of the call
CalledKey(call) == call.serviceName \o "-" \o call.language

WindowOpen(cache, t) == cache.present /\ t - cache.lastUpdated < TTL_MS

\* C28: a call of getApiSpecsForHeader is answered by a scan of the files and
\* leaves the entry of loadAllApiSpecs and its timestamp as they are, so that
\* the cache test of loadAllApiSpecs finds after the call what it found before
C28_HeaderLeavesCache ==
    [][headerCall'.made
         => /\ (~headerCall'.legacy /\ ~headerCall'.caught)
                   => headerCall'.result =
                          HeaderScan(files, headerCall'.language, headerCall'.version)
            /\ apiSpecCache' = apiSpecCache
            /\ filledKey' = filledKey
            /\ WindowOpen(apiSpecCache', now') = WindowOpen(apiSpecCache, now)]_vars

\* a header call was answered from the files while loadAllApiSpecs holds an
\* entry that is in force and was written before
C28_Witness ==
    /\ headerCall.made
    /\ ~headerCall.legacy
    /\ ~headerCall.caught
    /\ WindowOpen(apiSpecCache, now)
    /\ now > apiSpecCache.lastUpdated

(* C29 *)

\* the places of the rules whose path is the text visibility.default
DefaultPlaces == {i \in 1..Len(visibilityCheck.rules) :
                     visibilityCheck.rules[i].path = "visibility.default"}

\* the value of the applied rule is none of public, authenticated, role:<name>
UnknownValue(value) ==
    /\ value \notin {"public", "authenticated"}
    /\ ~StartsWith(value, "role:")

\* the properties hold the key with the value
Configured(key, value) ==
    \E k \in 1..Len(applicationProperties) :
        applicationProperties[k] = [key |-> key, value |-> value]

\* the check treated the page as public
TreatedAsPublic ==
    /\ visibilityCheck.rule.rule = "public"
    /\ visibilityCheck.visible
    /\ ~visibilityCheck.requiresAuth

\* C29 as stated: a page that no folder or file rule matches is always
\* treated as public, and an applied rule with an unknown value makes the page
\* visible without authentication
C29_AlwaysPublic ==
    visibilityCheck.made =>
        /\ MatchingPlaces = {} => TreatedAsPublic
        /\ UnknownValue(visibilityCheck.rule.rule)
               => visibilityCheck.visible /\ ~visibilityCheck.requiresAuth

\* C29: every rule comes from a key visibility.folder.<path> or
\* visibility.file.<path>; a page that no rule matches is treated as public
\* unless a rule has the path visibility.default, and then the value of the
\* first such rule is applied to it; an applied rule with an unknown value
\* makes the page visible without authentication
C29_FailsOpen ==
    visibilityCheck.made =>
        LET check == visibilityCheck
        IN  /\ \A i \in 1..Len(check.rules) :
                   Configured("visibility." \o check.rules[i].type \o "." \o check.rules[i].path,
                              check.rules[i].rule)
            /\ (MatchingPlaces = {} /\ DefaultPlaces = {}) => TreatedAsPublic
            /\ (MatchingPlaces = {} /\ DefaultPlaces # {})
                   => \E i \in DefaultPlaces :
                          /\ \A j \in DefaultPlaces : i <= j
                          /\ check.rule = [path |-> check.pagePath, type |-> "file",
                                           rule |-> check.rules[i].rule]
            /\ UnknownValue(check.rule.rule) => check.visible /\ ~check.requiresAuth

\* a visitor without roles was shown a page that no rule matches, while the
\* properties hold visibility.default=authenticated and a rule for another folder
C29_Witness ==
    /\ visibilityCheck.made
    /\ visibilityCheck.rules # <<>>
    /\ MatchingPlaces = {}
    /\ Configured("visibility.default", "authenticated")
    /\ visibilityCheck.userRoles = <<>>
    /\ TreatedAsPublic

(* C30 *)

\* the YAML files of the directory the call of the YAML endpoint read, in the
\* order of the listing
Listed ==
    LET call == endpointCall.yaml
    IN  SelectSeq(files, LAMBDA f :
            /\ Len(f.path) = 8
            /\ SubSeq(f.path, 1, 7) = <<"src", "content", "docs", call.language, "apispecs",
                                        call.specId, call.version>>
            /\ \/ EndsWith(f.path[8], ".yaml")
               \/ EndsWith(f.path[8], ".yml"))

\* the file can be read, parses and has truthy info and openapi fields
ValidFile(f) ==
    /\ f.path[8] \notin endpointCall.yaml.unreadable
    /\ f.content.parse = "ok"
    /\ f.content.info
    /\ f.content.openapi

\* C30: loadSimpleApiSpec returns the first file of the listing that can be
\* read, parses and has truthy info and openapi fields, whatever files stand
\* before it, and null when the directory is missing or holds no such file
C30_FirstValidFile ==
    endpointCall.yaml.made =>
        LET valid == SelectSeq(Listed, ValidFile)
        IN  IF valid = <<>>
            THEN endpointCall.yaml.status = 404
            ELSE /\ endpointCall.yaml.status = 200
                 /\ endpointCall.yaml.document = valid[1].content

====
